---- MODULE Spec2Model ----
(***************************************************************************)
(* tebogen: the two-level ordered collection of questions and groups       *)
(* (QuestionGroupList), its list primitives (QuestionList) and the         *)
(* questions list screen that moves elements through it.                   *)
(*                                                                         *)
(* Python indices are kept 0-based in every operator's interface; an       *)
(* optional argument (index = None) is the empty sequence <<>> and a given *)
(* one is <<i>>.  A call's outcome is a record [q, exc, ret]: the          *)
(* collection as the call left it (also when it raised), the exception     *)
(* class name ("none" when it returned) and the returned value.            *)
(***************************************************************************)
EXTENDS Integers, Sequences, FiniteSets, TLC

VARIABLES
    qgl,           \* QuestionGroupList._questions_and_groups
    last,          \* the last call on the collection: operation, arguments, collection before, outcome
    selected_idx,  \* QuestionsListScreen.selected_idx
    is_moving,     \* QuestionsListScreen.is_moving
    menu_items,    \* QuestionsListScreen.menu_items
    key_event,     \* the last key handled by the screen and the screen's fields before it
    validators,    \* ValidatorsList.validators of ConfigController._validators: a list of classes
    class_name,    \* the class attribute `name` of every validator class
    is_admin_bot_enabled,           \* ConfigController._is_admin_bot_enabled
    is_google_sheets_sync_enabled,  \* ConfigController._is_google_sheets_sync_enabled
    config_file,   \* the content of the file ConfigController._config_filename
    writes,        \* how many times the call under way has written config_file
    heap,          \* the list objects and the Group objects that refer to them
    screens_stack, \* NavigationController.screens_stack
    current_screen \* the screen of the run_current_screen that reads the keys

screen_vars == <<selected_idx, is_moving, menu_items, key_event>>

controller_vars ==
    <<validators, class_name, is_admin_bot_enabled, is_google_sheets_sync_enabled,
      config_file, writes>>

navigation_vars == <<screens_stack, current_screen>>

vars ==
    <<qgl, last, selected_idx, is_moving, menu_items, key_event, validators, class_name,
      is_admin_bot_enabled, is_google_sheets_sync_enabled, config_file, writes, heap,
      screens_stack, current_screen>>

(***************************************************************************)
(* Bounds of the model.                                                    *)
(***************************************************************************)
\* Most elements (top-level and nested together) a collection of Spec holds.
MaxElems == 4

\* Most elements of a collection the questions list screen is opened on.
MaxScreenElems == 3

(***************************************************************************)
(* Questions and groups.                                                   *)
(***************************************************************************)
NoValidator == "None"

Question(name, variable_name) ==
    [kind |-> "Question", name |-> name, variable_name |-> variable_name,
     validator |-> NoValidator]

Group(name, variable_name, questions) ==
    [kind |-> "Group", name |-> name, variable_name |-> variable_name,
     questions |-> questions]

IsQuestion(e) == e.kind = "Question"

IsGroup(e) == e.kind = "Group"

\* Question.__eq__ and Group.__eq__ on two objects of the same class.
Eq(a, b) == a.name = b.name \/ a.variable_name = b.variable_name

(***************************************************************************)
(* Python list primitives on a sequence (0-based positions).               *)
(***************************************************************************)
Insert(s, i, x) == SubSeq(s, 1, i) \o <<x>> \o SubSeq(s, i + 1, Len(s))

Remove(s, i) == SubSeq(s, 1, i) \o SubSeq(s, i + 2, Len(s))

Exchange(s, i, j) == [s EXCEPT ![i + 1] = s[j + 1], ![j + 1] = s[i + 1]]

Raised(q, exc) == [q |-> q, exc |-> exc, ret |-> <<>>]

Returned(q, ret) == [q |-> q, exc |-> "none", ret |-> ret]

(***************************************************************************)
(* QuestionList: the entries of one group.                                 *)
(***************************************************************************)
\* A QuestionList.add that would not look for an equal question.
QuestionList_add_unchecked(questions, question, index) ==
    IF index = <<>>
    THEN Returned(Append(questions, question), <<>>)
    ELSE IF index[1] < 0 \/ index[1] > Len(questions)
    THEN Raised(questions, "IndexError")
    ELSE Returned(Insert(questions, index[1], question), <<>>)

\* A QuestionList.add that would append whatever index it is given.
QuestionList_add_appending(questions, question, index) ==
    IF \E i \in 1..Len(questions) : Eq(questions[i], question)
    THEN Raised(questions, "ValueError")
    ELSE Returned(Append(questions, question), <<>>)

QuestionList_add(questions, question, index) ==
    IF \E i \in 1..Len(questions) : Eq(questions[i], question)
    THEN Raised(questions, "ValueError")
    ELSE IF index = <<>>
    THEN Returned(Append(questions, question), <<>>)
    ELSE IF index[1] < 0 \/ index[1] > Len(questions)
    THEN Raised(questions, "IndexError")
    ELSE Returned(Insert(questions, index[1], question), <<>>)

\* A QuestionList.pop that would take the first question for any index in
\* range.
QuestionList_pop_first(questions, index) ==
    IF index < 0 \/ index >= Len(questions)
    THEN Raised(questions, "IndexError")
    ELSE Returned(Remove(questions, 0), <<questions[1]>>)

QuestionList_pop(questions, index) ==
    IF index < 0 \/ index >= Len(questions)
    THEN Raised(questions, "IndexError")
    ELSE Returned(Remove(questions, index), <<questions[index + 1]>>)

QuestionList_swap(questions, index1, index2) ==
    IF index1 < 0 \/ index1 >= Len(questions)
    THEN Raised(questions, "IndexError")
    ELSE IF index2 < 0 \/ index2 >= Len(questions)
    THEN Raised(questions, "IndexError")
    ELSE Returned(Exchange(questions, index1, index2), <<>>)

\* The group at top-level position idx with its entries replaced.
WithQuestions(q, idx, questions) ==
    [q EXCEPT ![idx + 1].questions = questions]

(***************************************************************************)
(* QuestionGroupList.                                                      *)
(***************************************************************************)
\* An add that would look at the index before it looks for an equal sibling.
add_index_first(q, value, index) ==
    IF index # <<>> /\ (index[1] < 0 \/ index[1] > Len(q))
    THEN Raised(q, "IndexError")
    ELSE IF \E i \in 1..Len(q) : q[i].kind = value.kind /\ Eq(q[i], value)
    THEN Raised(q, IF IsQuestion(value)
                   THEN "QuestionAlreadyExistsException" ELSE "ValueError")
    ELSE IF index = <<>>
    THEN Returned(Append(q, value), <<>>)
    ELSE Returned(Insert(q, index[1], value), <<>>)

add(q, value, index) ==
    IF IsQuestion(value)
    THEN IF \E i \in 1..Len(q) : IsQuestion(q[i]) /\ Eq(q[i], value)
         THEN Raised(q, "QuestionAlreadyExistsException")
         ELSE IF index = <<>>
         THEN Returned(Append(q, value), <<>>)
         ELSE IF index[1] < 0 \/ index[1] > Len(q)
         THEN Raised(q, "IndexError")
         ELSE Returned(Insert(q, index[1], value), <<>>)
    ELSE IF \E i \in 1..Len(q) : IsGroup(q[i]) /\ Eq(q[i], value)
         THEN Raised(q, "ValueError")
         ELSE IF index = <<>>
         THEN Returned(Append(q, value), <<>>)
         ELSE IF index[1] < 0 \/ index[1] > Len(q)
         THEN Raised(q, "IndexError")
         ELSE Returned(Insert(q, index[1], value), <<>>)

add_question_to_group(q, question, group_index, index_in_group) ==
    IF group_index < 0 \/ group_index >= Len(q)
    THEN Raised(q, "IndexError")
    ELSE IF ~IsGroup(q[group_index + 1])
    THEN Raised(q, "TypeError")
    ELSE LET r == QuestionList_add(q[group_index + 1].questions, question, index_in_group)
         IN  [q |-> WithQuestions(q, group_index, r.q), exc |-> r.exc, ret |-> <<>>]

\* A pop that would take a negative index as list.pop does, counting from the
\* end.
pop_from_either_end(q, index) ==
    IF index < -Len(q) \/ index >= Len(q)
    THEN Raised(q, "IndexError")
    ELSE IF index < 0
    THEN Returned(Remove(q, Len(q) + index), <<q[Len(q) + index + 1]>>)
    ELSE Returned(Remove(q, index), <<q[index + 1]>>)

pop(q, index) ==
    IF index < 0 \/ index >= Len(q)
    THEN Raised(q, "IndexError")
    ELSE Returned(Remove(q, index), <<q[index + 1]>>)

\* A swap that would check its indexes and exchange nothing.
swap_nothing(q, index1, index2) ==
    IF index1 < 0 \/ index1 >= Len(q)
    THEN Raised(q, "IndexError")
    ELSE IF index2 < 0 \/ index2 >= Len(q)
    THEN Raised(q, "IndexError")
    ELSE Returned(q, <<>>)

swap(q, index1, index2) ==
    IF index1 < 0 \/ index1 >= Len(q)
    THEN Raised(q, "IndexError")
    ELSE IF index2 < 0 \/ index2 >= Len(q)
    THEN Raised(q, "IndexError")
    ELSE Returned(Exchange(q, index1, index2), <<>>)

\* The loop of ungroup_all_questions from iteration question_index on, n being
\* len(group.questions) as range() read it before the first iteration.
RECURSIVE UngroupLoop(_, _, _, _)
UngroupLoop(q, group_index, question_index, n) ==
    IF question_index >= n
    THEN Returned(q, <<>>)
    ELSE LET p == QuestionList_pop(q[group_index + 1].questions, 0)
         IN  IF p.exc # "none"
             THEN Raised(q, p.exc)
             ELSE LET q1 == WithQuestions(q, group_index, p.q)
                      a  == add(q1, p.ret[1], <<group_index + question_index + 1>>)
                  IN  IF a.exc # "none"
                      THEN Raised(a.q, a.exc)
                      ELSE UngroupLoop(a.q, group_index, question_index + 1, n)

ungroup_all_questions(q, group_index) ==
    IF group_index < 0 \/ group_index >= Len(q)
    THEN Raised(q, "IndexError")
    ELSE IF ~IsGroup(q[group_index + 1])
    THEN Raised(q, "TypeError")
    ELSE UngroupLoop(q, group_index, 0, Len(q[group_index + 1].questions))

\* An ungroup_single_question that would put the question before the group
\* whatever `after` is.
ungroup_single_question_before(q, group_index, question_index, after) ==
    IF group_index < 0 \/ group_index >= Len(q)
    THEN Raised(q, "IndexError")
    ELSE IF ~IsGroup(q[group_index + 1])
    THEN Raised(q, "TypeError")
    ELSE IF Len(q[group_index + 1].questions) <= question_index
    THEN Raised(q, "IndexError")
    ELSE LET p == QuestionList_pop(q[group_index + 1].questions, question_index)
         IN  IF p.exc # "none"
             THEN Raised(q, p.exc)
             ELSE LET q1 == WithQuestions(q, group_index, p.q)
                      a  == add(q1, p.ret[1], <<group_index>>)
                  IN  [q |-> a.q, exc |-> a.exc, ret |-> <<>>]

\* An ungroup_single_question that would take a group away with its last
\* question.
ungroup_single_question_dropping_empty(q, group_index, question_index, after) ==
    IF group_index < 0 \/ group_index >= Len(q)
    THEN Raised(q, "IndexError")
    ELSE IF ~IsGroup(q[group_index + 1])
    THEN Raised(q, "TypeError")
    ELSE IF Len(q[group_index + 1].questions) <= question_index
    THEN Raised(q, "IndexError")
    ELSE LET p == QuestionList_pop(q[group_index + 1].questions, question_index)
         IN  IF p.exc # "none"
             THEN Raised(q, p.exc)
             ELSE LET q1 == IF p.q = <<>> THEN Remove(q, group_index)
                            ELSE WithQuestions(q, group_index, p.q)
                      a  == add(q1, p.ret[1],
                                IF after /\ p.q # <<>> THEN <<group_index + 1>>
                                ELSE <<group_index>>)
                  IN  [q |-> a.q, exc |-> a.exc, ret |-> <<>>]

ungroup_single_question(q, group_index, question_index, after) ==
    IF group_index < 0 \/ group_index >= Len(q)
    THEN Raised(q, "IndexError")
    ELSE IF ~IsGroup(q[group_index + 1])
    THEN Raised(q, "TypeError")
    ELSE IF Len(q[group_index + 1].questions) <= question_index
    THEN Raised(q, "IndexError")
    ELSE LET p == QuestionList_pop(q[group_index + 1].questions, question_index)
         IN  IF p.exc # "none"
             THEN Raised(q, p.exc)
             ELSE LET q1 == WithQuestions(q, group_index, p.q)
                      a  == add(q1, p.ret[1],
                                IF after THEN <<group_index + 1>> ELSE <<group_index>>)
                  IN  [q |-> a.q, exc |-> a.exc, ret |-> <<>>]

move_question_to_group(q, question_index, group_index, index_in_group) ==
    IF group_index < 0 \/ group_index >= Len(q)
    THEN Raised(q, "IndexError")
    ELSE IF ~IsGroup(q[group_index + 1])
    THEN Raised(q, "TypeError")
    ELSE IF question_index < 0 \/ question_index >= Len(q)
    THEN Raised(q, "IndexError")
    ELSE IF ~IsQuestion(q[question_index + 1])
    THEN Raised(q, "TypeError")
    ELSE LET p     == pop(q, question_index)
             shift == IF question_index < group_index THEN -1 ELSE 0
             g     == group_index + shift
             r     == QuestionList_add(p.q[g + 1].questions, p.ret[1], index_in_group)
         IN  [q |-> WithQuestions(p.q, g, r.q), exc |-> r.exc, ret |-> <<>>]

\* Whether find_element's scan stops inside top-level element e.
Holds(e, variable_name) ==
    \/ e.variable_name = variable_name
    \/ IsGroup(e) /\ \E j \in 1..Len(e.questions) :
                        e.questions[j].variable_name = variable_name

\* A find_element that would, within a group, look at the questions before
\* the group's own key.
find_element_questions_first(q, variable_name) ==
    IF ~\E i \in 1..Len(q) : Holds(q[i], variable_name)
    THEN Raised(q, "ValueError")
    ELSE LET i == CHOOSE i \in 1..Len(q) :
                     /\ Holds(q[i], variable_name)
                     /\ \A h \in 1..(i - 1) : ~Holds(q[h], variable_name)
             e == q[i]
         IN  IF IsQuestion(e) \/ ~\E j \in 1..Len(e.questions) :
                                     e.questions[j].variable_name = variable_name
             THEN Returned(q, [idx |-> i - 1, sub_idx |-> <<>>])
             ELSE LET j == CHOOSE j \in 1..Len(e.questions) :
                              /\ e.questions[j].variable_name = variable_name
                              /\ \A h \in 1..(j - 1) :
                                    e.questions[h].variable_name # variable_name
                  IN  Returned(q, [idx |-> i - 1, sub_idx |-> <<j - 1>>])

\* A find_element that would report the group of a nested question and no
\* sub_idx.
find_element_top_only(q, variable_name) ==
    IF ~\E i \in 1..Len(q) : Holds(q[i], variable_name)
    THEN Raised(q, "ValueError")
    ELSE LET i == CHOOSE i \in 1..Len(q) :
                     /\ Holds(q[i], variable_name)
                     /\ \A h \in 1..(i - 1) : ~Holds(q[h], variable_name)
         IN  Returned(q, [idx |-> i - 1, sub_idx |-> <<>>])

\* (idx, sub_idx) of the first match in document order, or ValueError.
find_element(q, variable_name) ==
    IF ~\E i \in 1..Len(q) : Holds(q[i], variable_name)
    THEN Raised(q, "ValueError")
    ELSE LET i == CHOOSE i \in 1..Len(q) :
                     /\ Holds(q[i], variable_name)
                     /\ \A h \in 1..(i - 1) : ~Holds(q[h], variable_name)
             e == q[i]
         IN  IF IsQuestion(e) \/ e.variable_name = variable_name
             THEN Returned(q, [idx |-> i - 1, sub_idx |-> <<>>])
             ELSE LET j == CHOOSE j \in 1..Len(e.questions) :
                              /\ e.questions[j].variable_name = variable_name
                              /\ \A h \in 1..(j - 1) :
                                    e.questions[h].variable_name # variable_name
                  IN  Returned(q, [idx |-> i - 1, sub_idx |-> <<j - 1>>])

\* A call made by move_down/move_up as its last statement before `return shift`.
ThenReturn(r, shift) ==
    IF r.exc # "none" THEN Raised(r.q, r.exc) ELSE Returned(r.q, shift)

move_down(q, variable_name) ==
    LET f == find_element(q, variable_name) IN
    IF f.exc # "none" THEN Raised(q, f.exc) ELSE
    LET idx     == f.ret.idx
        sub_idx == f.ret.sub_idx
    IN  IF sub_idx = <<>>
        THEN IF IsGroup(q[idx + 1])
             THEN IF idx < Len(q) - 1
                  THEN LET s == swap(q, idx, idx + 1)
                       IN  IF IsGroup(s.q[idx + 1])
                           THEN Returned(s.q, Len(s.q[idx + 1].questions))
                           ELSE Returned(s.q, 0)
                  ELSE Raised(q, "BoundaryReachedException")
             ELSE IF idx < Len(q) - 1
                  THEN IF IsQuestion(q[idx + 2])
                       THEN ThenReturn(swap(q, idx, idx + 1), 0)
                       ELSE ThenReturn(move_question_to_group(q, idx, idx + 1, <<0>>), 0)
                  ELSE Raised(q, "BoundaryReachedException")
        ELSE IF sub_idx[1] < Len(q[idx + 1].questions) - 1
             THEN LET s == QuestionList_swap(q[idx + 1].questions, sub_idx[1], sub_idx[1] + 1)
                  IN  ThenReturn([s EXCEPT !.q = WithQuestions(q, idx, s.q)], 0)
             ELSE ThenReturn(ungroup_single_question(q, idx, sub_idx[1], TRUE), -1)

move_up(q, variable_name) ==
    LET f == find_element(q, variable_name) IN
    IF f.exc # "none" THEN Raised(q, f.exc) ELSE
    LET idx     == f.ret.idx
        sub_idx == f.ret.sub_idx
    IN  IF sub_idx = <<>>
        THEN IF IsGroup(q[idx + 1])
             THEN IF idx > 0
                  THEN LET s == swap(q, idx, idx - 1)
                       IN  IF IsGroup(s.q[idx + 1])
                           THEN Returned(s.q, -Len(s.q[idx + 1].questions))
                           ELSE Returned(s.q, 0)
                  ELSE Raised(q, "BoundaryReachedException")
             ELSE IF idx > 0
                  THEN IF IsQuestion(q[idx])
                       THEN ThenReturn(swap(q, idx, idx - 1), 0)
                       ELSE ThenReturn(move_question_to_group(q, idx, idx - 1, <<>>), 1)
                  ELSE Raised(q, "BoundaryReachedException")
        ELSE IF sub_idx[1] > 0
             THEN LET s == QuestionList_swap(q[idx + 1].questions, sub_idx[1], sub_idx[1] - 1)
                  IN  ThenReturn([s EXCEPT !.q = WithQuestions(q, idx, s.q)], 0)
             ELSE ThenReturn(ungroup_single_question(q, idx, sub_idx[1], FALSE), 0)

\* has_element(variable_name)[0]: some question, group or nested question has
\* the key.
has_element(q, variable_name) ==
    \E i \in 1..Len(q) : Holds(q[i], variable_name)

\* Strings that utils.is_valid_python_variable_name refuses with ValueError:
\* one that does not match ^[^\W\d]\w*$ and one that is a keyword.
InvalidVariableNames == {"1q", "class"}

\* keyword.iskeyword, on the strings of the model.
PythonKeywords == {"class"}

\* Strings the pattern ^[^\W\d]\w*$ does not match.
NotIdentifiers == {"1q", ""}

is_valid_python_variable_name(name) == name \notin NotIdentifiers \cup PythonKeywords

delete_question(q, variable_name) ==
    LET f == find_element(q, variable_name) IN
    IF f.exc # "none" THEN Raised(q, f.exc)
    ELSE IF f.ret.sub_idx # <<>>
    \* ungroup_single_question(idx, sub_idx, before=True): no such keyword.
    THEN Raised(q, "TypeError")
    ELSE IF IsQuestion(q[f.ret.idx + 1])
    THEN Returned(Remove(q, f.ret.idx), <<>>)
    ELSE Raised(q, "ValueError")

\* A delete_group that would remove the top-level element found, whatever its
\* kind.
delete_group_of_any_kind(q, variable_name) ==
    LET f == find_element(q, variable_name) IN
    IF f.exc # "none" THEN Raised(q, f.exc)
    ELSE IF f.ret.sub_idx # <<>>
    THEN Raised(q, "ValueError")
    ELSE Returned(Remove(q, f.ret.idx), <<>>)

delete_group(q, variable_name) ==
    LET f == find_element(q, variable_name) IN
    IF f.exc # "none" THEN Raised(q, f.exc)
    ELSE IF f.ret.sub_idx # <<>>
    THEN Raised(q, "ValueError")
    ELSE IF IsGroup(q[f.ret.idx + 1])
    THEN Returned(Remove(q, f.ret.idx), <<>>)
    ELSE Raised(q, "ValueError")

\* The element with name, key and validator set as update_question sets them.
\* On a group the assignment of validator makes an attribute that nothing
\* reads (Group.to_dict does not write it): the group's value keeps its fields.
Updated(e, new_name, new_variable_name, new_validator) ==
    IF IsQuestion(e)
    THEN [e EXCEPT !.name = new_name, !.variable_name = new_variable_name,
                   !.validator = new_validator]
    ELSE [e EXCEPT !.name = new_name, !.variable_name = new_variable_name]

\* An update_question that would set the name and the validator before it
\* looks at the new key.
update_question_name_first(q, question, new_name, new_variable_name, new_validator) ==
    LET f == find_element(q, question.variable_name) IN
    IF f.exc # "none" THEN Raised(q, f.exc)
    ELSE IF f.ret.sub_idx # <<>>
    THEN Raised(q, "TypeError")
    ELSE LET e  == q[f.ret.idx + 1]
             q1 == [q EXCEPT ![f.ret.idx + 1] =
                        Updated(e, new_name, e.variable_name, new_validator)]
         IN  IF new_variable_name # e.variable_name /\ has_element(q, new_variable_name)
             THEN Raised(q1, "QuestionAlreadyExistsException")
             ELSE IF /\ new_variable_name # e.variable_name
                     /\ ~is_valid_python_variable_name(new_variable_name)
             THEN Raised(q1, "ValueError")
             ELSE Returned([q EXCEPT ![f.ret.idx + 1] =
                                Updated(e, new_name, new_variable_name, new_validator)],
                           <<>>)

update_question(q, question, new_name, new_variable_name, new_validator) ==
    LET f == find_element(q, question.variable_name) IN
    IF f.exc # "none" THEN Raised(q, f.exc)
    ELSE IF f.ret.sub_idx # <<>>
    \* self._questions_and_groups[idx][sub_idx]: a Group is not subscriptable.
    THEN Raised(q, "TypeError")
    ELSE LET e == q[f.ret.idx + 1] IN
         IF new_variable_name # e.variable_name /\ has_element(q, new_variable_name)
         THEN Raised(q, "QuestionAlreadyExistsException")
         ELSE IF /\ new_variable_name # e.variable_name
                 /\ ~is_valid_python_variable_name(new_variable_name)
         THEN Raised(q, "ValueError")
         ELSE Returned([q EXCEPT ![f.ret.idx + 1] =
                            Updated(e, new_name, new_variable_name, new_validator)],
                       <<>>)

(***************************************************************************)
(* The values the calls are made with.                                     *)
(***************************************************************************)
\* Questions and groups whose names and keys are all different.
Questions == {Question("Q1", "q1"), Question("Q2", "q2"), Question("Q3", "q3")}

Groups == {Group("G1", "g1", <<>>), Group("G2", "g2", <<>>)}

\* One more of each kind, equal by name to the first and by key to the second.
EqualQuestions == {Question("Q1", "q2")}

EqualGroups == {Group("G1", "g2", <<>>)}

VariableNames == {x.variable_name : x \in Questions \cup Groups}

\* Number of questions and groups in a collection, nested ones included.
RECURSIVE Size(_)
Size(q) ==
    IF q = <<>> THEN 0
    ELSE 1 + (IF IsGroup(Head(q)) THEN Len(Head(q).questions) ELSE 0) + Size(Tail(q))

\* Every question and group of a collection in document order: a group, then
\* its questions.
RECURSIVE Flat(_)
Flat(q) ==
    IF q = <<>> THEN <<>>
    ELSE (IF IsGroup(Head(q)) THEN <<Head(q)>> \o Head(q).questions ELSE <<Head(q)>>)
         \o Flat(Tail(q))

\* All names differ and all keys differ, over both levels and both kinds.
Distinct(q) ==
    LET f == Flat(q)
    IN  \A i, j \in 1..Len(f) :
            i # j => f[i].name # f[j].name /\ f[i].variable_name # f[j].variable_name

(***************************************************************************)
(* validators.py: the validator classes and the list of them.              *)
(*                                                                         *)
(* A class is written by its name; its class attribute `name` is           *)
(* class_name[class].  ValidatorsList.validators is a list of classes, and *)
(* a list with its classes' names is the record [validators, class_name].  *)
(* The validator of a question is None (NoValidator), an instance of one   *)
(* of the built-in classes, written as the class (its name is the class    *)
(* attribute), or a Validator(name=n), written n.  The parameters of the   *)
(* built-in validators (min_value, date_format, ...) are left out.         *)
(***************************************************************************)
Range(s) == {s[i] : i \in DOMAIN s}

\* The classes validators_list is made of, in its order.
BuiltinClasses ==
    <<"IntegerValidator", "FloatValidator", "TextValidator", "DateValidator",
      "EmailValidator", "PhoneNumberValidator">>

builtin_validators ==
    <<"integer_validator", "float_validator", "text_validator", "date_validator",
      "email_validator", "phone_validator">>

\* The subclasses decorated with @dataclass: the decorator gives each an
\* __eq__ of its own, which compares fields with an instance of the same
\* class and is NotImplemented for anything else, a str included.
DataclassValidators ==
    {"IntegerValidator", "FloatValidator", "TextValidator", "DateValidator"}

\* Most classes that custom_validator has made and a list still holds.
MaxCustom == 2

\* The classes custom_validator makes, one per call.
CustomClasses == {"CustomValidator" \o ToString(i) : i \in 1..MaxCustom}

ValidatorClasses == Range(BuiltinClasses) \cup CustomClasses

\* The class attribute `name` of a class that custom_validator has not made
\* (or that nothing refers to any more).
NoName == ""

\* validators_list, and the class attributes as validators.py defines them.
validators_list ==
    [validators |-> BuiltinClasses,
     class_name |-> [c \in ValidatorClasses |->
                        IF \E i \in DOMAIN BuiltinClasses : BuiltinClasses[i] = c
                        THEN builtin_validators[CHOOSE i \in DOMAIN BuiltinClasses :
                                                    BuiltinClasses[i] = c]
                        ELSE NoName]]

\* [validator.name for validator in self.validators]
ValidatorNames(vl) == [i \in DOMAIN vl.validators |-> vl.class_name[vl.validators[i]]]

\* Position (from 1) of the first class of the list whose name is name.
FirstNamed(vl, name) ==
    CHOOSE i \in DOMAIN vl.validators :
        /\ ValidatorNames(vl)[i] = name
        /\ \A j \in 1..(i - 1) : ValidatorNames(vl)[j] # name

\* A call on the list ended with exception exc, whose message is message.
RaisedWith(vl, exc, message) == [q |-> vl, exc |-> exc, ret |-> message]

\* ValidatorsList.check_for_valid_name: its except clauses name
\* NotValidPythonVariableNameException and PythonKeywordException, which
\* utils.is_valid_python_variable_name never raises, so the ValueError of
\* utils leaves it as it is.  "none": the name passed.
check_for_valid_name(name) ==
    IF is_valid_python_variable_name(name) THEN "none" ELSE "ValueError"

\* custom_validator(name): a new class.
custom_validator(vl) == CHOOSE c \in CustomClasses : c \notin Range(vl.validators)

\* An add that would put the new class first.
ValidatorsList_add_first(vl, name) ==
    IF name \in Range(ValidatorNames(vl))
    THEN RaisedWith(vl, "ValidatorAlreadyExists", "already exists")
    ELSE IF check_for_valid_name(name) # "none"
    THEN RaisedWith(vl, check_for_valid_name(name), "not a valid name")
    ELSE LET c == custom_validator(vl)
         IN  Returned([validators |-> <<c>> \o vl.validators,
                       class_name |-> [vl.class_name EXCEPT ![c] = name]], <<>>)

\* An add that would not look for the name in the list.
ValidatorsList_add_unchecked(vl, name) ==
    IF check_for_valid_name(name) # "none"
    THEN RaisedWith(vl, check_for_valid_name(name), "not a valid name")
    ELSE LET c == custom_validator(vl)
         IN  Returned([validators |-> Append(vl.validators, c),
                       class_name |-> [vl.class_name EXCEPT ![c] = name]], <<>>)

ValidatorsList_add(vl, name) ==
    IF name \in Range(ValidatorNames(vl))
    THEN RaisedWith(vl, "ValidatorAlreadyExists", "already exists")
    ELSE IF check_for_valid_name(name) # "none"
    THEN RaisedWith(vl, check_for_valid_name(name), "not a valid name")
    ELSE LET c == custom_validator(vl)
         IN  Returned([validators |-> Append(vl.validators, c),
                       class_name |-> [vl.class_name EXCEPT ![c] = name]], <<>>)

\* The list without its class at position i (from 1).  A class that
\* custom_validator made is referred to by the list alone, and is gone with
\* its attribute; a built-in class stays in its module.
WithoutClass(vl, i) ==
    [validators |-> Remove(vl.validators, i - 1),
     class_name |-> IF vl.validators[i] \in CustomClasses
                    THEN [vl.class_name EXCEPT ![vl.validators[i]] = NoName]
                    ELSE vl.class_name]

\* A remove that would take the last class of the list, whatever its name.
ValidatorsList_remove_last(vl, name) ==
    IF name \in Range(builtin_validators)
    THEN RaisedWith(vl, "ValueError", "Cannot remove built-in validator")
    ELSE IF name \in Range(ValidatorNames(vl))
    THEN Returned(WithoutClass(vl, Len(vl.validators)), <<>>)
    ELSE RaisedWith(vl, "ValueError", "not found")

ValidatorsList_remove(vl, name) ==
    IF name \in Range(builtin_validators)
    THEN RaisedWith(vl, "ValueError", "Cannot remove built-in validator")
    ELSE IF name \in Range(ValidatorNames(vl))
    THEN Returned(WithoutClass(vl, FirstNamed(vl, name)), <<>>)
    ELSE RaisedWith(vl, "ValueError", "not found")

\* A change_name that would look for old_name before it looks at new_name.
ValidatorsList_change_name_old_first(vl, old_name, new_name) ==
    IF old_name \notin Range(ValidatorNames(vl))
    THEN RaisedWith(vl, "ValueError", "Validator not found")
    ELSE IF new_name \in Range(ValidatorNames(vl)) /\ new_name # old_name
    THEN RaisedWith(vl, "ValidatorAlreadyExists", "already exists")
    ELSE IF check_for_valid_name(new_name) # "none"
    THEN RaisedWith(vl, check_for_valid_name(new_name), "not a valid name")
    ELSE Returned([vl EXCEPT !.class_name[vl.validators[FirstNamed(vl, old_name)]] =
                                 new_name], <<>>)

ValidatorsList_change_name(vl, old_name, new_name) ==
    IF new_name \in Range(ValidatorNames(vl))
    THEN RaisedWith(vl, "ValidatorAlreadyExists", "already exists")
    ELSE IF check_for_valid_name(new_name) # "none"
    THEN RaisedWith(vl, check_for_valid_name(new_name), "not a valid name")
    ELSE IF old_name \in Range(ValidatorNames(vl))
    THEN Returned([vl EXCEPT !.class_name[vl.validators[FirstNamed(vl, old_name)]] =
                                 new_name], <<>>)
    ELSE RaisedWith(vl, "ValueError", "Validator not found")

\* ValidatorsList.to_dict: the names that are not in builtin_validators.
SelectNames(names) == SelectSeq(names, LAMBDA n : n \notin Range(builtin_validators))

ValidatorsList_to_dict(vl) ==
    [i \in DOMAIN SelectNames(ValidatorNames(vl)) |->
        [name |-> SelectNames(ValidatorNames(vl))[i]]]

\* validator.name of the validator of a question.
validator_name(names, validator) ==
    IF validator \in Range(BuiltinClasses) THEN names[validator] ELSE validator

\* validator == name, with name a str: Validator.__eq__ compares the names,
\* the __eq__ of a dataclass (and of None) says no.
validator_eq(names, validator, name) ==
    /\ validator # NoValidator
    /\ validator \notin DataclassValidators
    /\ validator_name(names, validator) = name

\* Validator.to_dict and its overrides.
Validator_to_dict(names, validator) == [name |-> validator_name(names, validator)]

\* ValidatorFactory.create: the class is chosen by the name in the data as
\* the module wrote it; every other name makes a Validator(name=...).
ValidatorFactory_create(data) ==
    IF data.name = "" THEN Raised(NoValidator, "ValueError")
    ELSE IF data.name = "integer_validator" THEN Returned("IntegerValidator", <<>>)
    ELSE IF data.name = "float_validator" THEN Returned("FloatValidator", <<>>)
    ELSE IF data.name = "text_validator" THEN Returned("TextValidator", <<>>)
    ELSE IF data.name = "date_validator" THEN Returned("DateValidator", <<>>)
    ELSE Returned(data.name, <<>>)

(***************************************************************************)
(* to_dict and from_dict.  A dict is a record whose fields are its keys;   *)
(* a missing key is a missing field.                                       *)
(***************************************************************************)
\* Question.__init__: the setter of variable_name tests the key, the other
\* two take what they are given.
Question_init(name, variable_name, validator) ==
    IF ~is_valid_python_variable_name(variable_name)
    THEN Raised(<<>>, "ValueError")
    ELSE Returned([Question(name, variable_name) EXCEPT !.validator = validator], <<>>)

\* Group.__init__ assigns the three attributes and does not go through the
\* setters.
Group_init(name, variable_name, questions) ==
    Returned(Group(name, variable_name, questions), <<>>)

Question_to_dict(names, question) ==
    IF question.validator # NoValidator
    THEN [name |-> question.name, variable_name |-> question.variable_name,
          validator |-> Validator_to_dict(names, question.validator)]
    ELSE [name |-> question.name, variable_name |-> question.variable_name]

Group_to_dict(names, group) ==
    [name |-> group.name, variable_name |-> group.variable_name,
     questions |-> [i \in DOMAIN group.questions |->
                       Question_to_dict(names, group.questions[i])]]

QuestionGroupList_to_dict(names, q) ==
    [i \in DOMAIN q |-> IF IsGroup(q[i]) THEN Group_to_dict(names, q[i])
                        ELSE Question_to_dict(names, q[i])]

\* not data.get(key), for a key whose value is a str.
Falsy(data, key) == key \notin DOMAIN data \/ data[key] = ""

Question_from_dict(data) ==
    LET validator == IF "validator" \in DOMAIN data
                     THEN ValidatorFactory_create(data.validator)
                     ELSE Returned(NoValidator, <<>>)
    IN  IF validator.exc # "none" THEN Raised(<<>>, validator.exc)
        ELSE IF Falsy(data, "name") THEN Raised(<<>>, "ValueError")
        ELSE IF Falsy(data, "variable_name") THEN Raised(<<>>, "ValueError")
        ELSE Question_init(data.name, data.variable_name, validator.q)

Group_from_dict(data) ==
    LET questions == [i \in DOMAIN data.questions |-> Question_from_dict(data.questions[i])]
    IN  IF \E i \in DOMAIN questions : questions[i].exc # "none"
        THEN Raised(<<>>, "ValueError")
        ELSE IF Falsy(data, "name") THEN Raised(<<>>, "ValueError")
        ELSE IF Falsy(data, "variable_name") THEN Raised(<<>>, "ValueError")
        ELSE Group_init(data.name, data.variable_name,
                        [i \in DOMAIN questions |-> questions[i].q])

\* The list is made of the parsed elements as they come: it is not built
\* with add, and nothing compares the elements with each other.
QuestionGroupList_from_dict(data) ==
    LET items == [i \in DOMAIN data |->
                     IF "questions" \in DOMAIN data[i]
                     THEN Group_from_dict(data[i])
                     ELSE Question_from_dict(data[i])]
    IN  IF \E i \in DOMAIN items : items[i].exc # "none"
        THEN Raised(<<>>, "ValueError")
        ELSE Returned([i \in DOMAIN items |-> items[i].q], <<>>)

(***************************************************************************)
(* ConfigController.  A controller is the record of its collection, its    *)
(* list of validators (with the names of the classes), its two flags, the  *)
(* content of its file and the number of writes of the call under way.     *)
(* The file holds the document json.dump wrote: the dict of to_dict.       *)
(***************************************************************************)
ConfigController_to_dict(c) ==
    [is_admin_bot_enabled |-> c.is_admin_bot_enabled,
     is_google_sheets_sync_enabled |-> c.is_google_sheets_sync_enabled,
     questions_and_groups |-> QuestionGroupList_to_dict(c.class_name, c.questions_and_groups),
     validators |-> ValidatorsList_to_dict(c)]

\* open(self._config_filename, 'w') and json.dump: the file is written anew.
save_to_file(c) ==
    [c EXCEPT !.config_file = ConfigController_to_dict(c), !.writes = c.writes + 1]

\* The controller with the list of validators as a call on the list left it.
WithValidators(c, vl) == [c EXCEPT !.validators = vl.validators, !.class_name = vl.class_name]

\* if question.validator == name: question.validator = None
Cleared(names, question, name) ==
    IF validator_eq(names, question.validator, name)
    THEN [question EXCEPT !.validator = NoValidator]
    ELSE question

\* The walk of remove_validator over the top-level questions and the
\* questions of the groups.
ClearedAll(names, q, name) ==
    [i \in DOMAIN q |->
        IF IsGroup(q[i])
        THEN [q[i] EXCEPT !.questions =
                  [j \in DOMAIN q[i].questions |-> Cleared(names, q[i].questions[j], name)]]
        ELSE Cleared(names, q[i], name)]

\* if question.validator == old_name: question.validator.name = new_name.
\* The assignment gives the instance a name of its own; an instance of
\* EmailValidator or PhoneNumberValidator with a name of its own compares and
\* is written like a Validator(name=new_name), and is modelled as one.
Renamed(names, question, old_name, new_name) ==
    IF validator_eq(names, question.validator, old_name)
    THEN [question EXCEPT !.validator = new_name]
    ELSE question

\* The walk of change_validator_name over the top-level questions and the
\* questions of the groups.
RenamedAll(names, q, old_name, new_name) ==
    [i \in DOMAIN q |->
        IF IsGroup(q[i])
        THEN [q[i] EXCEPT !.questions =
                  [j \in DOMAIN q[i].questions |->
                      Renamed(names, q[i].questions[j], old_name, new_name)]]
        ELSE Renamed(names, q[i], old_name, new_name)]

add_validator(c, name) ==
    LET r == ValidatorsList_add(c, name) IN
    IF r.exc # "none" THEN RaisedWith(c, r.exc, r.ret)
    ELSE Returned(save_to_file(WithValidators(c, r.q)), <<>>)

remove_validator(c, name) ==
    LET r == ValidatorsList_remove(c, name) IN
    IF r.exc # "none" THEN RaisedWith(c, r.exc, r.ret)
    ELSE LET c1 == WithValidators(c, r.q)
             q1 == ClearedAll(c1.class_name, c1.questions_and_groups, name)
         IN  Returned(save_to_file([c1 EXCEPT !.questions_and_groups = q1]), <<>>)

\* A change_validator_name that would write the file before it walks the
\* collection.
change_validator_name_save_first(c, old_name, new_name) ==
    LET r == ValidatorsList_change_name(c, old_name, new_name) IN
    IF r.exc # "none" THEN RaisedWith(c, r.exc, r.ret)
    ELSE LET c1 == save_to_file(WithValidators(c, r.q))
             q1 == RenamedAll(c1.class_name, c1.questions_and_groups, old_name, new_name)
         IN  Returned([c1 EXCEPT !.questions_and_groups = q1], <<>>)

change_validator_name(c, old_name, new_name) ==
    LET r == ValidatorsList_change_name(c, old_name, new_name) IN
    IF r.exc # "none" THEN RaisedWith(c, r.exc, r.ret)
    ELSE LET c1 == WithValidators(c, r.q)
             q1 == RenamedAll(c1.class_name, c1.questions_and_groups, old_name, new_name)
         IN  Returned(save_to_file([c1 EXCEPT !.questions_and_groups = q1]), <<>>)

\* isinstance(value, bool), of a value written as Python writes it.
IsBool(value) == value \in {"True", "False"}

\* The setter of is_admin_bot_enabled.
set_is_admin_bot_enabled(c, value) ==
    IF ~IsBool(value) THEN RaisedWith(c, "TypeError", "must be a boolean")
    ELSE Returned(save_to_file([c EXCEPT !.is_admin_bot_enabled = (value = "True")]), <<>>)

\* The setter of is_google_sheets_sync_enabled.
set_is_google_sheets_sync_enabled(c, value) ==
    IF ~IsBool(value) THEN RaisedWith(c, "TypeError", "must be a boolean")
    ELSE Returned(save_to_file([c EXCEPT !.is_google_sheets_sync_enabled = (value = "True")]), <<>>)

(***************************************************************************)
(* The calls.                                                              *)
(***************************************************************************)
NoCall == [op |-> "none", args |-> <<>>, pre |-> <<>>, exc |-> "none", ret |-> <<>>]

\* No call is under way: the collection takes one call at a time (the
\* application is single-threaded).
Idle == last.op = "none"

\* Operation op is called with args on the collection and ends as r.
Call(op, args, r) ==
    /\ qgl' = r.q
    /\ last' = [op |-> op, args |-> args, pre |-> qgl, exc |-> r.exc, ret |-> r.ret]
    /\ UNCHANGED <<screen_vars, controller_vars, heap, navigation_vars>>

MoveDown(variable_name) ==
    Call("move_down", <<variable_name>>, move_down(qgl, variable_name))

MoveUp(variable_name) ==
    Call("move_up", <<variable_name>>, move_up(qgl, variable_name))

\* The caller has taken the call's outcome and goes on.
Continue ==
    /\ last.op # "none"
    /\ last' = NoCall
    /\ UNCHANGED <<qgl, screen_vars, controller_vars, heap, navigation_vars>>

NoKey ==
    [key |-> "none", selected_idx |-> 0, is_moving |-> FALSE, menu_items |-> <<>>,
     exc |-> "none"]

\* The questions list screen is not open.
NoScreen ==
    /\ selected_idx = 0
    /\ is_moving = FALSE
    /\ menu_items = <<>>
    /\ key_event = NoKey

\* The file ConfigController._config_filename does not exist.
NoFile == <<>>

\* No ConfigController has been made and no validator class is in use:
\* there is no list of validators, and nothing has been written.
NoController ==
    /\ validators = <<>>
    /\ class_name = <<>>
    /\ is_admin_bot_enabled = FALSE
    /\ is_google_sheets_sync_enabled = FALSE
    /\ config_file = NoFile
    /\ writes = 0

\* No object is followed by its identity: the lists of qgl are written by
\* their content.
NoHeap == heap = <<>>

\* No NavigationController has been made.
NoNavigation ==
    /\ screens_stack = <<>>
    /\ current_screen = 0

(***************************************************************************)
(* Spec: every operation of the collection, from the empty collection, with *)
(* values that may be equal by name or by key.                             *)
(***************************************************************************)
Values == Questions \cup EqualQuestions \cup Groups \cup EqualGroups

\* Index arguments for a list of n elements: None, each valid one, and one
\* beyond either end.
OptIndexes(n) == {<<>>} \cup {<<i>> : i \in -1..(n + 1)}

Indexes(n) == -1..n

GroupLen(i) ==
    IF i \in 0..(Len(qgl) - 1) /\ IsGroup(qgl[i + 1]) THEN Len(qgl[i + 1].questions) ELSE 0

\* A call is followed only while its outcome holds at most MaxElems elements.
Fits(r) == Size(r.q) <= MaxElems

Add ==
    \E value \in Values, index \in OptIndexes(Len(qgl)) :
        LET r == add(qgl, value, index)
        IN  Fits(r) /\ Call("add", <<value, index>>, r)

AddQuestionToGroup ==
    \E question \in Questions \cup EqualQuestions, group_index \in Indexes(Len(qgl)) :
        \E index_in_group \in OptIndexes(GroupLen(group_index)) :
            LET r == add_question_to_group(qgl, question, group_index, index_in_group)
            IN  Fits(r) /\ Call("add_question_to_group",
                                <<question, group_index, index_in_group>>, r)

Pop ==
    \E index \in Indexes(Len(qgl)) :
        Call("pop", <<index>>, pop(qgl, index))

Swap ==
    \E index1, index2 \in Indexes(Len(qgl)) :
        Call("swap", <<index1, index2>>, swap(qgl, index1, index2))

UngroupAllQuestions ==
    \E group_index \in Indexes(Len(qgl)) :
        Call("ungroup_all_questions", <<group_index>>,
             ungroup_all_questions(qgl, group_index))

UngroupSingleQuestion ==
    \E group_index \in Indexes(Len(qgl)), after \in BOOLEAN :
        \E question_index \in Indexes(GroupLen(group_index)) :
            Call("ungroup_single_question", <<group_index, question_index, after>>,
                 ungroup_single_question(qgl, group_index, question_index, after))

MoveQuestionToGroup ==
    \E question_index, group_index \in Indexes(Len(qgl)) :
        \E index_in_group \in OptIndexes(GroupLen(group_index)) :
            Call("move_question_to_group", <<question_index, group_index, index_in_group>>,
                 move_question_to_group(qgl, question_index, group_index, index_in_group))

FindElement ==
    \E variable_name \in VariableNames :
        Call("find_element", <<variable_name>>, find_element(qgl, variable_name))

DeleteQuestion ==
    \E variable_name \in VariableNames :
        Call("delete_question", <<variable_name>>, delete_question(qgl, variable_name))

DeleteGroup ==
    \E variable_name \in VariableNames :
        Call("delete_group", <<variable_name>>, delete_group(qgl, variable_name))

\* update_question of the element of some key, with arguments from the sets
\* given.
UpdateQuestionWith(new_names, new_variable_names, new_validators) ==
    \E variable_name \in VariableNames, new_name \in new_names,
       new_variable_name \in new_variable_names, new_validator \in new_validators :
        Call("update_question",
             <<Question("Q1", variable_name), new_name, new_variable_name, new_validator>>,
             update_question(qgl, Question("Q1", variable_name), new_name,
                             new_variable_name, new_validator))

\* A change of name and key into those of a value the calls are made with, or
\* into a string that is no identifier.
UpdateQuestion == UpdateQuestionWith({"Q1"}, {"q2", "1q"}, {NoValidator})

\* The top-level indexes at which the collection holds a group.
GroupIndexes == {i \in 0..(Len(qgl) - 1) : IsGroup(qgl[i + 1])}

\* group.questions.pop(index) on a group of the collection.
QuestionListPop ==
    \E group_index \in GroupIndexes :
        \E index \in Indexes(GroupLen(group_index)) :
            LET r == QuestionList_pop(qgl[group_index + 1].questions, index)
            IN  Call("QuestionList.pop", <<group_index, index>>,
                     [r EXCEPT !.q = WithQuestions(qgl, group_index, r.q)])

\* group.swap(index1, index2) on a group of the collection.
GroupSwap ==
    \E group_index \in GroupIndexes :
        \E index1, index2 \in Indexes(GroupLen(group_index)) :
            LET r == QuestionList_swap(qgl[group_index + 1].questions, index1, index2)
            IN  Call("Group.swap", <<group_index, index1, index2>>,
                     [r EXCEPT !.q = WithQuestions(qgl, group_index, r.q)])

Init ==
    /\ qgl = <<>>
    /\ last = NoCall
    /\ NoScreen
    /\ NoController
    /\ NoHeap
    /\ NoNavigation

Next ==
    \/ Idle /\ Add
    \/ Idle /\ AddQuestionToGroup
    \/ Idle /\ Pop
    \/ Idle /\ Swap
    \/ Idle /\ UngroupAllQuestions
    \/ Idle /\ UngroupSingleQuestion
    \/ Idle /\ MoveQuestionToGroup
    \/ Idle /\ \E variable_name \in VariableNames : MoveDown(variable_name)
    \/ Idle /\ \E variable_name \in VariableNames : MoveUp(variable_name)
    \/ Idle /\ FindElement
    \/ Idle /\ DeleteQuestion
    \/ Idle /\ DeleteGroup
    \/ Idle /\ UpdateQuestion
    \/ Idle /\ QuestionListPop
    \/ Idle /\ GroupSwap
    \/ Continue

Spec == Init /\ [][Next]_vars

(***************************************************************************)
(* SpecScreen: the questions list screen, opened on a collection that add  *)
(* and add_question_to_group have built, handling Enter, Up and Down.      *)
(* The scroll window (start_idx) and the rendering are left out: they read *)
(* selected_idx and menu_items and write neither.                          *)
(***************************************************************************)
\* ConfigController.move_qustion_or_group_down / _up: the controller hands the
\* call to its collection and lets its exceptions through.
move_qustion_or_group_down(q, variable_name) == move_down(q, variable_name)

move_qustion_or_group_up(q, variable_name) == move_up(q, variable_name)

\* menu_items as fetch_questions_and_groups builds it: a (item, depth) pair
\* per question and group, a group's questions right after it at depth 1.
RECURSIVE fetch_questions_and_groups(_)
fetch_questions_and_groups(q) ==
    IF q = <<>> THEN <<>>
    ELSE (IF IsGroup(Head(q))
          THEN <<<<Head(q), 0>>>> \o
               [j \in 1..Len(Head(q).questions) |-> <<Head(q).questions[j], 1>>]
          ELSE <<<<Head(q), 0>>>>)
         \o fetch_questions_and_groups(Tail(q))

\* menu_items[i] of Python: a negative index counts from the end.
ValidIndex(s, i) == -Len(s) <= i /\ i < Len(s)

Item(s, i) == IF i >= 0 THEN s[i + 1] ELSE s[Len(s) + i + 1]

\* handle_input ended with exception exc ("none": it returned).
Handled(key, exc) ==
    key_event' = [key |-> key, selected_idx |-> selected_idx, is_moving |-> is_moving,
                  menu_items |-> menu_items, exc |-> exc]

\* The Up/Down branch of handle_input in moving mode; step is -1 for Up and
\* +1 for Down.
MoveSelected(key, step) ==
    IF ~ValidIndex(menu_items, selected_idx)
    THEN /\ Handled(key, "IndexError")
         /\ UNCHANGED <<qgl, selected_idx, is_moving, menu_items>>
    ELSE LET variable_name == Item(menu_items, selected_idx)[1].variable_name
             r == IF key = "KEY_UP"
                  THEN move_qustion_or_group_up(qgl, variable_name)
                  ELSE move_qustion_or_group_down(qgl, variable_name)
         IN  /\ qgl' = r.q
             /\ UNCHANGED is_moving
             /\ IF r.exc = "none"
                THEN /\ selected_idx' = selected_idx + step + r.ret
                     /\ menu_items' = fetch_questions_and_groups(r.q)
                     /\ Handled(key, "none")
                ELSE /\ UNCHANGED <<selected_idx, menu_items>>
                     /\ Handled(key, IF r.exc = "BoundaryReachedException"
                                     THEN "none" ELSE r.exc)

handle_input(key) ==
    LET moving == IF key = "KEY_ENTER" THEN ~is_moving ELSE is_moving
    IN  IF ~moving
        THEN /\ is_moving' = moving
             /\ selected_idx' =
                    IF key = "KEY_UP" /\ selected_idx > 0
                    THEN selected_idx - 1
                    ELSE IF key = "KEY_DOWN" /\ selected_idx < Len(menu_items) - 1
                    THEN selected_idx + 1
                    ELSE selected_idx
             /\ Handled(key, "none")
             /\ UNCHANGED <<qgl, menu_items>>
        ELSE IF key = "KEY_ENTER"
        THEN /\ is_moving' = moving
             /\ Handled(key, "none")
             /\ UNCHANGED <<qgl, selected_idx, menu_items>>
        ELSE MoveSelected(key, IF key = "KEY_UP" THEN -1 ELSE 1)

\* The screen waits for a key; an exception that left handle_input has ended
\* the application.
AwaitingKey == key_event.key = "none"

KeyEnter == AwaitingKey /\ handle_input("KEY_ENTER") /\ UNCHANGED <<last, controller_vars, heap, navigation_vars>>

KeyUp == AwaitingKey /\ handle_input("KEY_UP") /\ UNCHANGED <<last, controller_vars, heap, navigation_vars>>

KeyDown == AwaitingKey /\ handle_input("KEY_DOWN") /\ UNCHANGED <<last, controller_vars, heap, navigation_vars>>

\* handle_input returned and the main loop reads the next key.
NextKey ==
    /\ key_event.key # "none"
    /\ key_event.exc = "none"
    /\ key_event' = NoKey
    /\ UNCHANGED <<qgl, last, selected_idx, is_moving, menu_items, controller_vars, heap, navigation_vars>>

\* The collections of one more element that a call of add or
\* add_question_to_group (appending, to the last group) makes of q.
Appended(q) ==
    {add(q, value, <<>>).q :
         value \in {v \in Values : add(q, v, <<>>).exc = "none"}}
    \cup (IF q # <<>> /\ IsGroup(q[Len(q)])
          THEN {add_question_to_group(q, question, Len(q) - 1, <<>>).q :
                    question \in {v \in Questions \cup EqualQuestions :
                        add_question_to_group(q, v, Len(q) - 1, <<>>).exc = "none"}}
          ELSE {})

RECURSIVE Built(_)
Built(k) ==
    IF k = 0 THEN {<<>>} ELSE UNION {Appended(q) : q \in Built(k - 1)}

ScreenCollections == UNION {Built(k) : k \in 0..MaxScreenElems}

\* QuestionsListScreen.__init__ on a collection.
InitScreen ==
    /\ qgl \in ScreenCollections
    /\ last = NoCall
    /\ selected_idx = 0
    /\ is_moving = FALSE
    /\ menu_items = fetch_questions_and_groups(qgl)
    /\ key_event = NoKey
    /\ NoController
    /\ NoHeap
    /\ NoNavigation

NextScreen ==
    \/ KeyEnter
    \/ KeyUp
    \/ KeyDown
    \/ NextKey

SpecScreen == InitScreen /\ [][NextScreen]_vars

(***************************************************************************)
(* SpecUpdate: update_question, called again and again with new names,     *)
(* keys and validators, on a collection that add and add_question_to_group *)
(* have built.                                                             *)
(***************************************************************************)
NewNames == {"N"}

\* Keys of the values the calls are made with, a key none of them has, and
\* the strings that are no identifiers.
NewVariableNames == {"q1", "g1", "q9"} \cup InvalidVariableNames

Validators == {"V"}

UpdateQuestionFreely == UpdateQuestionWith(NewNames, NewVariableNames, Validators)

InitUpdate ==
    /\ qgl \in ScreenCollections
    /\ last = NoCall
    /\ NoScreen
    /\ NoController
    /\ NoHeap
    /\ NoNavigation

NextUpdate ==
    \/ Idle /\ UpdateQuestionFreely
    \/ Continue

SpecUpdate == InitUpdate /\ [][NextUpdate]_vars

(***************************************************************************)
(* SpecRegistry: add, remove and change_name on a ValidatorsList that      *)
(* starts as validators_list, with names that are in the list, names that  *)
(* are not, and strings that are no valid names.                           *)
(***************************************************************************)
\* Names for new and renamed classes, valid ones and refused ones.
RegistryNames == {"cv", "cw", "integer_validator", "1q", "class"}

\* Names of the classes to remove or rename.
RegisteredNames == {"cv", "cw", "integer_validator", "email_validator"}

\* The ValidatorsList and the names of its classes.
Registry == [validators |-> validators, class_name |-> class_name]

\* Operation op is called with args on the list and ends as r.
RegistryCall(op, args, r) ==
    /\ validators' = r.q.validators
    /\ class_name' = r.q.class_name
    /\ last' = [op |-> op, args |-> args, pre |-> Registry, exc |-> r.exc, ret |-> r.ret]
    /\ UNCHANGED <<qgl, screen_vars, is_admin_bot_enabled, is_google_sheets_sync_enabled,
                   config_file, writes, heap, navigation_vars>>

\* custom_validator has a class left to make.
ClassLeft(vl) == \E c \in CustomClasses : c \notin Range(vl.validators)

\* An add that gets as far as custom_validator finds a class to make.
Addable(vl, name) ==
    \/ name \in Range(ValidatorNames(vl))
    \/ check_for_valid_name(name) # "none"
    \/ ClassLeft(vl)

RegistryAdd ==
    \E name \in RegistryNames :
        /\ Addable(Registry, name)
        /\ RegistryCall("ValidatorsList.add", <<name>>, ValidatorsList_add(Registry, name))

RegistryRemove ==
    \E name \in RegisteredNames :
        RegistryCall("ValidatorsList.remove", <<name>>, ValidatorsList_remove(Registry, name))

RegistryChangeName ==
    \E old_name \in RegisteredNames, new_name \in RegistryNames :
        RegistryCall("ValidatorsList.change_name", <<old_name, new_name>>,
                     ValidatorsList_change_name(Registry, old_name, new_name))

\* copy.deepcopy(validators_list), of no controller.
InitRegistry ==
    /\ qgl = <<>>
    /\ last = NoCall
    /\ NoScreen
    /\ validators = validators_list.validators
    /\ class_name = validators_list.class_name
    /\ is_admin_bot_enabled = FALSE
    /\ is_google_sheets_sync_enabled = FALSE
    /\ config_file = NoFile
    /\ writes = 0
    /\ NoHeap
    /\ NoNavigation

NextRegistry ==
    \/ Idle /\ RegistryAdd
    \/ Idle /\ RegistryRemove
    \/ Idle /\ RegistryChangeName
    \/ Continue

SpecRegistry == InitRegistry /\ [][NextRegistry]_vars

(***************************************************************************)
(* SpecDict: questions and groups made by their constructors from names,   *)
(* keys and validators of every sort, put into the collection, updated,    *)
(* written with to_dict and read with from_dict.                           *)
(***************************************************************************)
\* Most elements (top-level and nested together) a collection of SpecDict
\* is given by add and add_question_to_group.
MaxDictElems == 2

\* Names, an empty one included: the setters of name take every str.
DictNames == {"", "A", "B"}

\* Keys, some of them no valid variable names.
DictVariableNames == {"q1", "q2", "1q"}

\* None, a Validator(name="cv") and an IntegerValidator().
DictValidators == {NoValidator, "cv", "IntegerValidator"}

\* question = Question(name, variable_name, validator), and if that returned,
\* add(question).
NewQuestion ==
    \E name \in DictNames, variable_name \in DictVariableNames, validator \in DictValidators :
        LET question == Question_init(name, variable_name, validator)
        IN  IF question.exc # "none"
            THEN Call("Question", <<name, variable_name, validator>>, Raised(qgl, question.exc))
            ELSE Call("add", <<question.q, <<>>>>, add(qgl, question.q, <<>>))

\* group = Group(name, variable_name), and add(group).
NewGroup ==
    \E name \in DictNames, variable_name \in DictVariableNames :
        LET group == Group_init(name, variable_name, <<>>)
        IN  IF group.exc # "none"
            THEN Call("Group", <<name, variable_name>>, Raised(qgl, group.exc))
            ELSE Call("add", <<group.q, <<>>>>, add(qgl, group.q, <<>>))

\* add_question_to_group(Question(name, variable_name, validator), group_index).
NewQuestionInGroup ==
    \E name \in DictNames, variable_name \in DictVariableNames, validator \in DictValidators,
       group_index \in 0..(Len(qgl) - 1) :
        LET question == Question_init(name, variable_name, validator)
        IN  /\ question.exc = "none"
            /\ Call("add_question_to_group", <<question.q, group_index, <<>>>>,
                    add_question_to_group(qgl, question.q, group_index, <<>>))

\* The dicts of a question, with and without a validator, and of a group of
\* no or one question.
QuestionDicts ==
    [name : DictNames, variable_name : DictVariableNames \cup {""}]
    \cup [name : {"A"}, variable_name : {"q1"},
          validator : [name : {"cv", "integer_validator", "email_validator", ""}]]

GroupDicts ==
    [name : DictNames, variable_name : DictVariableNames \cup {""},
     questions : {<<>>} \cup {<<d>> : d \in [name : DictNames, variable_name : {"q1", "1q"}]}]

\* The documents from_dict is given: what to_dict makes of the collection,
\* and every document of one element.
Documents(names, q) ==
    {QuestionGroupList_to_dict(names, q)} \cup {<<d>> : d \in QuestionDicts \cup GroupDicts}

\* The collection is replaced by QuestionGroupList.from_dict(data), as
\* ConfigController.load_from_file does; when from_dict raises, nothing is
\* replaced.
FromDict ==
    \E data \in Documents(class_name, qgl) :
        LET r == QuestionGroupList_from_dict(data)
        IN  Call("from_dict", <<data>>, IF r.exc = "none" THEN r ELSE Raised(qgl, r.exc))

UpdateQuestionInDict == UpdateQuestionWith({"", "N"}, DictVariableNames, {"cv"})

\* The empty collection and the validator classes as validators.py
\* defines them.
InitDict ==
    /\ qgl = <<>>
    /\ last = NoCall
    /\ NoScreen
    /\ validators = validators_list.validators
    /\ class_name = validators_list.class_name
    /\ is_admin_bot_enabled = FALSE
    /\ is_google_sheets_sync_enabled = FALSE
    /\ config_file = NoFile
    /\ writes = 0
    /\ NoHeap
    /\ NoNavigation

NextDict ==
    \/ Idle /\ Size(qgl) < MaxDictElems /\ NewQuestion
    \/ Idle /\ Size(qgl) < MaxDictElems /\ NewGroup
    \/ Idle /\ Size(qgl) < MaxDictElems /\ NewQuestionInGroup
    \/ Idle /\ FromDict
    \/ Idle /\ UpdateQuestionInDict
    \/ Continue

SpecDict == InitDict /\ [][NextDict]_vars

(***************************************************************************)
(* SpecController: add_validator, remove_validator, change_validator_name  *)
(* and the setters of the flags, on a controller made with a collection    *)
(* whose questions, at the top level and in a group, have validators.      *)
(***************************************************************************)
\* The controller.
Controller ==
    [questions_and_groups |-> qgl, validators |-> validators, class_name |-> class_name,
     is_admin_bot_enabled |-> is_admin_bot_enabled,
     is_google_sheets_sync_enabled |-> is_google_sheets_sync_enabled,
     config_file |-> config_file, writes |-> writes]

\* Operation op is called with args on the controller and ends as r; writes
\* counts from the beginning of the call.
ControllerCall(op, args, r) ==
    /\ qgl' = r.q.questions_and_groups
    /\ validators' = r.q.validators
    /\ class_name' = r.q.class_name
    /\ is_admin_bot_enabled' = r.q.is_admin_bot_enabled
    /\ is_google_sheets_sync_enabled' = r.q.is_google_sheets_sync_enabled
    /\ config_file' = r.q.config_file
    /\ writes' = r.q.writes
    /\ last' = [op |-> op, args |-> args, pre |-> Controller, exc |-> r.exc, ret |-> r.ret]
    /\ UNCHANGED <<screen_vars, heap, navigation_vars>>

\* The controller at the beginning of a call.
Called == [Controller EXCEPT !.writes = 0]

\* Names for new and renamed classes.
NewValidatorNames == {"cv", "cw", "1q"}

\* Names of the classes to remove or rename.
OldValidatorNames == {"cv", "cw", "integer_validator"}

\* None, a Validator(name="cv"), an IntegerValidator() and an EmailValidator().
ControllerValidators == {NoValidator, "cv", "IntegerValidator", "EmailValidator"}

\* Values given to the setters of the flags.
FlagValues == {"True", "False", "'yes'"}

AddValidator ==
    \E name \in NewValidatorNames :
        /\ Addable(Registry, name)
        /\ ControllerCall("add_validator", <<name>>, add_validator(Called, name))

RemoveValidator ==
    \E name \in OldValidatorNames :
        ControllerCall("remove_validator", <<name>>, remove_validator(Called, name))

ChangeValidatorName ==
    \E old_name \in OldValidatorNames, new_name \in NewValidatorNames :
        ControllerCall("change_validator_name", <<old_name, new_name>>,
                       change_validator_name(Called, old_name, new_name))

SetIsAdminBotEnabled ==
    \E value \in FlagValues :
        ControllerCall("is_admin_bot_enabled", <<value>>,
                       set_is_admin_bot_enabled(Called, value))

SetIsGoogleSheetsSyncEnabled ==
    \E value \in FlagValues :
        ControllerCall("is_google_sheets_sync_enabled", <<value>>,
                       set_is_google_sheets_sync_enabled(Called, value))

\* The collections the controller is made with: a question, a group of one
\* question and maybe a question after it, each with a validator or none.
ControllerCollections ==
    {<<[Question("Q1", "q1") EXCEPT !.validator = v1],
       Group("G1", "g1", <<[Question("Q2", "q2") EXCEPT !.validator = v2]>>)>> :
         v1, v2 \in ControllerValidators}

\* ConfigController(False, False, questions_and_groups): the setters of
\* __init__ have written the file, the last of them with everything set.
InitController ==
    /\ qgl \in ControllerCollections
    /\ last = NoCall
    /\ NoScreen
    /\ validators = validators_list.validators
    /\ class_name = validators_list.class_name
    /\ is_admin_bot_enabled = FALSE
    /\ is_google_sheets_sync_enabled = FALSE
    /\ writes = 0
    /\ config_file =
           ConfigController_to_dict(
               [questions_and_groups |-> qgl, validators |-> validators,
                class_name |-> class_name, is_admin_bot_enabled |-> FALSE,
                is_google_sheets_sync_enabled |-> FALSE])
    /\ NoHeap
    /\ NoNavigation

NextController ==
    \/ Idle /\ AddValidator
    \/ Idle /\ RemoveValidator
    \/ Idle /\ ChangeValidatorName
    \/ Idle /\ SetIsAdminBotEnabled
    \/ Idle /\ SetIsGoogleSheetsSyncEnabled
    \/ Continue

SpecController == InitController /\ [][NextController]_vars

(***************************************************************************)
(* SpecShared: Group objects and the list objects their QuestionLists      *)
(* refer to.  A list object is written by its identity; heap.lists gives   *)
(* the content of each, heap.groups the Group objects in the order they    *)
(* were made, each with the identity of the list of its QuestionList.      *)
(***************************************************************************)
\* Most Group objects made.
MaxGroups == 2

\* The list that is the default of the parameter questions of
\* Group.__init__: one object, made when the def is executed.
DefaultQuestions == "default"

\* The list the caller makes for the n-th Group when it passes one.
CallerList(n) == "list" \o ToString(n)

\* The fresh list QuestionList.__init__ makes for the n-th Group when it is
\* given None.
FreshList(n) == "fresh" \o ToString(n)

ListObjects ==
    {DefaultQuestions} \cup {CallerList(n) : n \in 1..MaxGroups}
        \cup {FreshList(n) : n \in 1..MaxGroups}

\* The list QuestionList._questions refers to, for the n-th Group; questions
\* is <<>> for None and <<list>> for a list.
QuestionList_init(questions, n) ==
    IF questions = <<>> THEN FreshList(n) ELSE questions[1]

\* Group(name, variable_name) and Group(name, variable_name, questions):
\* questions is <<>> when the argument is left out.
Group_new(h, name, variable_name, questions) ==
    LET n == Len(h.groups) + 1
        given == IF questions = <<>> THEN <<DefaultQuestions>> ELSE questions
    IN  [h EXCEPT !.groups =
             Append(@, [name |-> name, variable_name |-> variable_name,
                        questions |-> QuestionList_init(given, n)])]

\* The questions of the g-th Group (from 1).
Entries(h, g) == h.lists[h.groups[g].questions]

\* A call on the QuestionList of the g-th Group that ends as r.
OnEntries(h, g, r) == [r EXCEPT !.q = [h EXCEPT !.lists[h.groups[g].questions] = r.q]]

\* The interpreter after `import tebogen.group`: the default list is there
\* and empty, and no Group has been made.
EmptyHeap == [lists |-> [l \in ListObjects |-> <<>>], groups |-> <<>>]

SharedQuestions == {Question("Q1", "q1"), Question("Q2", "q2")}

\* Operation op is called with args and ends as r.
SharedCall(op, args, r) ==
    /\ heap' = r.q
    /\ last' = [op |-> op, args |-> args, pre |-> heap, exc |-> r.exc, ret |-> r.ret]
    /\ UNCHANGED <<qgl, screen_vars, controller_vars, navigation_vars>>

\* g = Group(name, variable_name) or g = Group(name, variable_name, []).
SharedNewGroup ==
    /\ Len(heap.groups) < MaxGroups
    /\ \E questions \in {<<>>, <<CallerList(Len(heap.groups) + 1)>>} :
           LET n == ToString(Len(heap.groups) + 1)
           IN  SharedCall("Group", <<questions>>,
                          Returned(Group_new(heap, "G" \o n, "g" \o n, questions), <<>>))

\* g.questions.add(question, index)
SharedAdd ==
    \E g \in DOMAIN heap.groups, question \in SharedQuestions :
        \E index \in OptIndexes(Len(Entries(heap, g))) :
            SharedCall("QuestionList.add", <<g, question, index>>,
                       OnEntries(heap, g, QuestionList_add(Entries(heap, g), question, index)))

\* g.questions.pop(index)
SharedPop ==
    \E g \in DOMAIN heap.groups :
        \E index \in Indexes(Len(Entries(heap, g))) :
            SharedCall("QuestionList.pop", <<g, index>>,
                       OnEntries(heap, g, QuestionList_pop(Entries(heap, g), index)))

\* g.swap(index1, index2)
SharedSwap ==
    \E g \in DOMAIN heap.groups :
        \E index1, index2 \in Indexes(Len(Entries(heap, g))) :
            SharedCall("Group.swap", <<g, index1, index2>>,
                       OnEntries(heap, g,
                                 QuestionList_swap(Entries(heap, g), index1, index2)))

InitShared ==
    /\ qgl = <<>>
    /\ last = NoCall
    /\ NoScreen
    /\ NoController
    /\ heap = EmptyHeap
    /\ NoNavigation

NextShared ==
    \/ Idle /\ SharedNewGroup
    \/ Idle /\ SharedAdd
    \/ Idle /\ SharedPop
    \/ Idle /\ SharedSwap
    \/ Continue

SpecShared == InitShared /\ [][NextShared]_vars

(***************************************************************************)
(* SpecRepeat: a collection whose names and keys are all different is      *)
(* built, and then one key is moved in one direction for as long as the    *)
(* move returns.                                                           *)
(***************************************************************************)
\* Most elements of a collection the repeated moves start on.
MaxRepeatElems == 4

\* A successful add or add_question_to_group (appending, to the last group)
\* makes the collection one element longer, names and keys all different.
RepeatBuild ==
    /\ Size(qgl) < MaxRepeatElems
    /\ \E q \in Appended(qgl) :
           /\ Distinct(q)
           /\ qgl' = q
    /\ UNCHANGED <<last, screen_vars, controller_vars, heap, navigation_vars>>

\* move_down or move_up is called with the key and ends as r.  What the call
\* returned is recorded as <<shift>>, and as <<>> when it raised.
Moving(op, variable_name) ==
    \E r \in {IF op = "move_down" THEN move_down(qgl, variable_name)
              ELSE move_up(qgl, variable_name)} :
        Call(op, <<variable_name>>,
             [r EXCEPT !.ret = IF r.exc = "none" THEN <<r.ret>> ELSE <<>>])

RepeatDown == \E variable_name \in VariableNames : Moving("move_down", variable_name)

RepeatUp == \E variable_name \in VariableNames : Moving("move_up", variable_name)

\* The caller makes the call it made last once more.
MoveAgain ==
    /\ last.op \in {"move_down", "move_up"}
    /\ last.exc = "none"
    /\ Moving(last.op, last.args[1])

InitRepeat ==
    /\ qgl = <<>>
    /\ last = NoCall
    /\ NoScreen
    /\ NoController
    /\ NoHeap
    /\ NoNavigation

NextRepeat ==
    \/ Idle /\ RepeatBuild
    \/ Idle /\ RepeatDown
    \/ Idle /\ RepeatUp
    \/ MoveAgain

\* A caller that repeats the move goes on repeating it while it returns: a
\* repeated call that is due is made.
SpecRepeat == InitRepeat /\ [][NextRepeat]_vars /\ WF_vars(MoveAgain)

(***************************************************************************)
(* SpecNavigation: the NavigationController and the screens that call it.  *)
(* A screen on screens_stack is written by its class, its selected_idx and *)
(* the amount its confirm_callback goes back by (0: it has no callback);   *)
(* current_screen is the place on screens_stack of the screen that the     *)
(* running run_current_screen reads keys for (0: none is running).  Text   *)
(* fields, drawing and the configuration are left out, they call neither   *)
(* navigate_to nor go_back; whether the configuration accepts a name is an *)
(* input of the key.  A call that navigates never returns to its caller:   *)
(* run_current_screen loops until SystemExit, so the loop entered last is  *)
(* the only one that reads keys.                                           *)
(***************************************************************************)
MaxAmount == 3

\* The NavigationController n as the variables have it.
Navigation ==
    [screens_stack |-> screens_stack, current_screen |-> current_screen, exc |-> "none"]

\* A screen as its __init__ leaves it.
Screen(screen, confirm_callback) ==
    [screen |-> screen, selected_idx |-> 0, confirm_callback |-> confirm_callback]

\* raise SystemExit: every run_current_screen under way is left.
exit_app(n) == [n EXCEPT !.exc = "SystemExit", !.current_screen = 0]

\* current_screen = self.screens_stack[-1], then the loop that reads keys.
run_current_screen(n) ==
    IF n.screens_stack = <<>>
    THEN [n EXCEPT !.exc = "IndexError", !.current_screen = 0]
    ELSE [n EXCEPT !.current_screen = Len(n.screens_stack)]

navigate_to(n, screen) ==
    run_current_screen([n EXCEPT !.screens_stack = Append(@, screen)])

\* go_back as it would be if it compared with >=.
go_back_to_none(n, amount) ==
    IF Len(n.screens_stack) >= amount
    THEN run_current_screen(
             [n EXCEPT !.screens_stack =
                           SubSeq(@, 1, Len(@) - (IF amount > 0 THEN amount ELSE 0))])
    ELSE exit_app(n)

go_back(n, amount) ==
    IF Len(n.screens_stack) > amount
    THEN run_current_screen(
             [n EXCEPT !.screens_stack =
                           SubSeq(@, 1, Len(@) - (IF amount > 0 THEN amount ELSE 0))])
    ELSE exit_app(n)

\* BaseScreen.navigate_back.
navigate_back(n, amount) == go_back(n, amount)

\* self of the handle_input that run_current_screen calls, and its fields.
Self(n) == n.screens_stack[n.current_screen]

Select(n, idx) == [n EXCEPT !.screens_stack[n.current_screen].selected_idx = idx]

\* The Up and Down branches that the menus share: the cursor moves within
\* 0..last_idx.
UpOrDown(n, key, last_idx) ==
    IF key = "KEY_UP" /\ Self(n).selected_idx > 0
    THEN Select(n, Self(n).selected_idx - 1)
    ELSE IF key = "KEY_DOWN" /\ Self(n).selected_idx < last_idx
    THEN Select(n, Self(n).selected_idx + 1)
    ELSE n

MainMenuScreen_handle_input(n, key) ==
    IF key = "KEY_ENTER"
    THEN CASE Self(n).selected_idx = 0 -> navigate_to(n, Screen("SettingsMenuScreen", 0))
           [] Self(n).selected_idx = 1 -> navigate_to(n, Screen("QuestionsListScreen", 0))
           [] Self(n).selected_idx = 2 -> navigate_to(n, Screen("ValidatorsListScreen", 0))
           [] Self(n).selected_idx = 3 -> exit_app(n)
           [] OTHER -> n
    ELSE UpOrDown(n, key, 3)

SettingsMenuScreen_handle_input(n, key) ==
    IF key = "KEY_ENTER" THEN navigate_back(n, 1) ELSE UpOrDown(n, key, 2)

\* The navigation of QuestionsListScreen.handle_input: Backspace goes back,
\* the other keys are those of SpecScreen.
QuestionsListScreen_handle_input(n, key) ==
    IF key = "KEY_BACKSPACE" THEN navigate_back(n, 1) ELSE n

\* row is what the cursor of the validators list is on: the first row, a
\* built-in validator or a custom one.
ValidatorsListScreen_handle_input(n, key, row) ==
    IF key = "KEY_BACKSPACE"
    THEN navigate_back(n, 1)
    ELSE IF key = "KEY_ENTER"
    THEN CASE row = "create" -> navigate_to(n, Screen("CreateValidatorScreen", 0))
           [] row = "builtin" -> n
           [] row = "custom" -> navigate_to(n, Screen("EditValidatorScreen", 0))
    ELSE n

\* accepted: add_validator takes the name in the text field.
CreateValidatorScreen_handle_input(n, key, accepted) ==
    IF key = "KEY_ENTER"
    THEN CASE Self(n).selected_idx = 0 -> n
           [] Self(n).selected_idx = 1 -> IF accepted THEN navigate_back(n, 1) ELSE n
           [] Self(n).selected_idx = 2 -> navigate_back(n, 1)
           [] OTHER -> n
    ELSE UpOrDown(n, key, 2)

\* accepted: the name is as it was or change_validator_name takes it.  The
\* ConfirmScreen is made with the callback that removes the validator and
\* calls navigate_back(2).
EditValidatorScreen_handle_input(n, key, accepted) ==
    IF key = "KEY_ENTER"
    THEN CASE Self(n).selected_idx = 0 -> n
           [] Self(n).selected_idx = 1 -> IF accepted THEN navigate_back(n, 1) ELSE n
           [] Self(n).selected_idx = 2 -> navigate_to(n, Screen("ConfirmScreen", 2))
           [] Self(n).selected_idx = 3 -> navigate_back(n, 1)
           [] OTHER -> n
    ELSE UpOrDown(n, key, 3)

ConfirmScreen_handle_input(n, key) ==
    IF key = "KEY_UP" /\ Self(n).selected_idx = 1
    THEN Select(n, 0)
    ELSE IF key = "KEY_DOWN" /\ Self(n).selected_idx = 0
    THEN Select(n, 1)
    ELSE IF key = "KEY_ENTER"
    THEN CASE Self(n).selected_idx = 0 -> navigate_back(n, 1)
           [] Self(n).selected_idx = 1 -> navigate_back(n, Self(n).confirm_callback)
           [] OTHER -> n
    ELSE n

\* current_screen.handle_input(key) of run_current_screen.
Screen_handle_input(n, key, row, accepted) ==
    CASE Self(n).screen = "MainMenuScreen" -> MainMenuScreen_handle_input(n, key)
      [] Self(n).screen = "SettingsMenuScreen" -> SettingsMenuScreen_handle_input(n, key)
      [] Self(n).screen = "QuestionsListScreen" -> QuestionsListScreen_handle_input(n, key)
      [] Self(n).screen = "ValidatorsListScreen" ->
             ValidatorsListScreen_handle_input(n, key, row)
      [] Self(n).screen = "CreateValidatorScreen" ->
             CreateValidatorScreen_handle_input(n, key, accepted)
      [] Self(n).screen = "EditValidatorScreen" ->
             EditValidatorScreen_handle_input(n, key, accepted)
      [] Self(n).screen = "ConfirmScreen" -> ConfirmScreen_handle_input(n, key)

\* A call on the NavigationController ends as r.
NavigationCall(op, args, r) ==
    /\ screens_stack' = r.screens_stack
    /\ current_screen' = r.current_screen
    /\ last' = [op |-> op, args |-> args, pre |-> screens_stack, exc |-> r.exc,
                ret |-> <<>>]
    /\ UNCHANGED <<qgl, screen_vars, controller_vars, heap>>

\* The application starts on the main menu.
OpenMainMenu ==
    /\ screens_stack = <<>>
    /\ current_screen = 0
    /\ NavigationCall("navigate_to", <<"MainMenuScreen">>,
                      navigate_to(Navigation, Screen("MainMenuScreen", 0)))

\* getch returns a key and the current screen handles it.
KeyPressed ==
    /\ current_screen # 0
    /\ \E key \in {"KEY_UP", "KEY_DOWN", "KEY_ENTER", "KEY_BACKSPACE"},
          row \in {"create", "builtin", "custom"}, accepted \in BOOLEAN :
           NavigationCall("handle_input",
                          <<Self(Navigation).screen, key, Self(Navigation).selected_idx>>,
                          Screen_handle_input(Navigation, key, row, accepted))

\* The current screen calls navigate_back(amount).
NavigateBack ==
    /\ current_screen # 0
    /\ \E amount \in 0..MaxAmount :
           NavigationCall("go_back", <<amount>>, navigate_back(Navigation, amount))

InitNavigation ==
    /\ qgl = <<>>
    /\ last = NoCall
    /\ NoScreen
    /\ NoController
    /\ NoHeap
    /\ NoNavigation

NextNavigation ==
    \/ Idle /\ OpenMainMenu
    \/ Idle /\ KeyPressed
    \/ Idle /\ NavigateBack
    \/ Continue

SpecNavigation == InitNavigation /\ [][NextNavigation]_vars

(***************************************************************************)
(* What the claims speak of.                                               *)
(***************************************************************************)
Moved == last.op \in {"move_down", "move_up"}

\* The key a call is to find its element by: its first argument, and for
\* update_question the key of the question that is its first argument.
MovedKey ==
    IF last.op = "update_question" THEN last.args[1].variable_name ELSE last.args[1]

\* The element the key names in the collection before the call (the first one
\* in document order that has the key) is the top-level element at 1-based
\* position i.
TopAt(i) ==
    /\ i \in 1..Len(last.pre)
    /\ last.pre[i].variable_name = MovedKey
    /\ \A h \in 1..(i - 1) : ~Holds(last.pre[h], MovedKey)

TopQuestionAt(i) == TopAt(i) /\ IsQuestion(last.pre[i])

TopGroupAt(i) == TopAt(i) /\ IsGroup(last.pre[i])

\* It is entry j of the group at top-level position g (both 1-based).
NestedAt(g, j) ==
    /\ g \in 1..Len(last.pre)
    /\ \A h \in 1..(g - 1) : ~Holds(last.pre[h], MovedKey)
    /\ IsGroup(last.pre[g])
    /\ last.pre[g].variable_name # MovedKey
    /\ j \in 1..Len(last.pre[g].questions)
    /\ last.pre[g].questions[j].variable_name = MovedKey
    /\ \A h \in 1..(j - 1) : last.pre[g].questions[h].variable_name # MovedKey

Swapped(s, i, j) == [s EXCEPT ![i] = s[j], ![j] = s[i]]

Without(s, i) == [k \in 1..(Len(s) - 1) |-> IF k < i THEN s[k] ELSE s[k + 1]]

\* s with x put so that it is element i of the result.
With(s, i, x) ==
    [k \in 1..(Len(s) + 1) |-> IF k < i THEN s[k] ELSE IF k = i THEN x ELSE s[k - 1]]

ReturnedShift(n) == last.exc = "none" /\ last.ret = n

\* C1: on a collection whose names and keys are all different, a move_up(k)
\* after a successful move_down(k), and a move_down(k) after a successful
\* move_up(k), succeeds and gives back the collection as it was before the
\* first of the two calls.
C1_DownUpInverse ==
    (Moved /\ last.exc = "none" /\ Distinct(last.pre)) =>
        LET back == IF last.op = "move_down"
                    THEN move_up(qgl, MovedKey)
                    ELSE move_down(qgl, MovedKey)
        IN  back.exc = "none" /\ back.q = last.pre

\* A successful move_down that took a question into or out of a group.
C1_Witness ==
    /\ last.op = "move_down" /\ last.exc = "none"
    /\ Len(qgl) # Len(last.pre)
    /\ move_up(qgl, MovedKey).q = last.pre

\* C2: move_down(k) of a top-level question at index i that has a next sibling
\* swaps the two when the sibling is a question, and when it is a group takes
\* the question out of the top level and makes it entry 0 of the group, before
\* the group's entries in their old order; either way it returns shift 0.
C2_TopQuestionDown ==
    \A i \in 1..(Len(last.pre) - 1) :
        (last.op = "move_down" /\ TopQuestionAt(i)) =>
            /\ ReturnedShift(0)
            /\ IF IsQuestion(last.pre[i + 1])
               THEN qgl = Swapped(last.pre, i, i + 1)
               ELSE qgl = Without([last.pre EXCEPT ![i + 1].questions =
                                       <<last.pre[i]>> \o last.pre[i + 1].questions], i)

\* move_down took a top-level question into a group that had entries.
C2_Witness ==
    \E i \in 1..(Len(last.pre) - 1) :
        /\ last.op = "move_down" /\ TopQuestionAt(i)
        /\ IsGroup(last.pre[i + 1]) /\ last.pre[i + 1].questions # <<>>
        /\ qgl[i].questions[1] = last.pre[i]

\* C3: move_down(k) of a nested question swaps it with the next entry of its
\* group and returns 0 when it is not the last entry; when it is the last entry
\* it is taken out of the group and put at the top level right after the
\* group, and -1 is returned.
C3_NestedDown ==
    \A g \in 1..Len(last.pre) :
        IsGroup(last.pre[g]) =>
            \A j \in 1..Len(last.pre[g].questions) :
                (last.op = "move_down" /\ NestedAt(g, j)) =>
                    IF j < Len(last.pre[g].questions)
                    THEN /\ ReturnedShift(0)
                         /\ qgl = [last.pre EXCEPT ![g].questions =
                                       Swapped(last.pre[g].questions, j, j + 1)]
                    ELSE /\ ReturnedShift(-1)
                         /\ qgl = With([last.pre EXCEPT ![g].questions =
                                            Without(last.pre[g].questions, j)],
                                       g + 1, last.pre[g].questions[j])

\* move_down took the last entry out of a group that is followed by a sibling.
C3_Witness ==
    \E g \in 1..(Len(last.pre) - 1) :
        /\ last.op = "move_down" /\ IsGroup(last.pre[g])
        /\ NestedAt(g, Len(last.pre[g].questions))
        /\ Len(last.pre[g].questions) > 1
        /\ last.exc = "none" /\ last.ret = -1
        /\ qgl[g + 1].variable_name = MovedKey

\* C4: move_up(k): a top-level question whose previous sibling is a group
\* becomes the last entry of that group and +1 is returned; a nested question
\* at position 0 is put at the top level right before its group and 0 is
\* returned; a top-level question with a question before it, and a nested one
\* that is not first, are swapped with their predecessor and 0 is returned.
C4_QuestionUp ==
    /\ \A i \in 2..Len(last.pre) :
           (last.op = "move_up" /\ TopQuestionAt(i)) =>
               IF IsQuestion(last.pre[i - 1])
               THEN /\ ReturnedShift(0)
                    /\ qgl = Swapped(last.pre, i, i - 1)
               ELSE /\ ReturnedShift(1)
                    /\ qgl = Without([last.pre EXCEPT ![i - 1].questions =
                                          Append(last.pre[i - 1].questions, last.pre[i])], i)
    /\ \A g \in 1..Len(last.pre) :
           IsGroup(last.pre[g]) =>
               \A j \in 1..Len(last.pre[g].questions) :
                   (last.op = "move_up" /\ NestedAt(g, j)) =>
                       /\ ReturnedShift(0)
                       /\ IF j > 1
                          THEN qgl = [last.pre EXCEPT ![g].questions =
                                          Swapped(last.pre[g].questions, j, j - 1)]
                          ELSE qgl = With([last.pre EXCEPT ![g].questions =
                                               Without(last.pre[g].questions, j)],
                                          g, last.pre[g].questions[j])

\* move_up took a top-level question into a group that had entries.
C4_Witness ==
    \E i \in 2..Len(last.pre) :
        /\ last.op = "move_up" /\ TopQuestionAt(i)
        /\ IsGroup(last.pre[i - 1]) /\ last.pre[i - 1].questions # <<>>
        /\ last.exc = "none" /\ last.ret = 1
        /\ qgl[i - 1].questions[Len(qgl[i - 1].questions)] = last.pre[i]

EqualSiblings(s, value) ==
    {i \in 1..Len(s) : s[i].kind = value.kind /\ Eq(s[i], value)}

\* C8: a call on the collection that raises leaves the collection exactly as
\* it was before the call.
C8_RaiseLeavesUnchanged ==
    last.exc # "none" => qgl = last.pre

\* C9: the keys of all questions, nested questions and groups of the
\* collection are mutually distinct (invariant I1).
C9_KeysDistinct ==
    LET f == Flat(qgl)
    IN  \A i, j \in 1..Len(f) : i # j => f[i].variable_name # f[j].variable_name

\* C10: add of a value that has an equal (same name or same key) sibling of
\* its kind, to the collection or to a group's entries, raises the duplicate
\* error of that list and leaves the collection unchanged, whatever index is
\* given, an out-of-range one included.
C10_DuplicateRejected ==
    /\ (last.op = "add" /\ EqualSiblings(last.pre, last.args[1]) # {}) =>
           /\ last.exc = IF IsQuestion(last.args[1])
                         THEN "QuestionAlreadyExistsException" ELSE "ValueError"
           /\ qgl = last.pre
    /\ (/\ last.op = "add_question_to_group"
        /\ last.args[2] \in 0..(Len(last.pre) - 1)
        /\ IsGroup(last.pre[last.args[2] + 1])
        /\ EqualSiblings(last.pre[last.args[2] + 1].questions, last.args[1]) # {}) =>
           /\ last.exc = "ValueError"
           /\ qgl = last.pre

\* add at an index beyond the end of a question whose only equal sibling has
\* the same name and another key.
C10_Witness ==
    /\ last.op = "add" /\ IsQuestion(last.args[1])
    /\ last.args[2] = <<Len(last.pre) + 1>>
    /\ \E i \in EqualSiblings(last.pre, last.args[1]) :
           last.pre[i].variable_name # last.args[1].variable_name
    /\ last.exc = "QuestionAlreadyExistsException"
    /\ qgl = last.pre

\* All names differ and all keys differ among the items of a menu.
DistinctItems(items) ==
    \A i, j \in 1..Len(items) :
        i # j => /\ items[i][1].name # items[j][1].name
                 /\ items[i][1].variable_name # items[j][1].variable_name

\* An Up or Down key was handled in moving mode with the cursor on a row.
MoveKeyHandled ==
    /\ key_event.key \in {"KEY_UP", "KEY_DOWN"}
    /\ key_event.is_moving
    /\ key_event.selected_idx \in 0..(Len(key_event.menu_items) - 1)

\* C7: when an Up or Down key is handled in moving mode with selected_idx on
\* the row of an element, handle_input returns and selected_idx is the row of
\* that same element in the menu as it is afterwards.
C7_CursorAligned ==
    MoveKeyHandled =>
        /\ key_event.exc = "none"
        /\ selected_idx \in 0..(Len(menu_items) - 1)
        /\ menu_items[selected_idx + 1][1] =
               key_event.menu_items[key_event.selected_idx + 1][1]

\* The same on a menu whose names and keys are all different: there the
\* cursor stays on its element.
C7_AlignedWhenDistinct ==
    DistinctItems(key_event.menu_items) => C7_CursorAligned

(***************************************************************************)
(* On a collection whose names and keys are all different the moves do as  *)
(* C2, C3 and C4 say, and a move that raises leaves the collection as it   *)
(* was.                                                                    *)
(***************************************************************************)
C2_WhenDistinct == (Moved /\ Distinct(last.pre)) => C2_TopQuestionDown

C3_WhenDistinct == (Moved /\ Distinct(last.pre)) => C3_NestedDown

C4_WhenDistinct == (Moved /\ Distinct(last.pre)) => C4_QuestionUp

C8_MoveWhenDistinct == (Moved /\ Distinct(last.pre)) => C8_RaiseLeavesUnchanged

\* C11: no group of the collection holds two questions that are equal by name
\* or by key (invariant I2), in every state the operations reach.
C11_GroupEntriesUnique ==
    \A g \in 1..Len(qgl) :
        IsGroup(qgl[g]) =>
            \A i, j \in 1..Len(qgl[g].questions) :
                i # j => ~Eq(qgl[g].questions[i], qgl[g].questions[j])

\* A group holds two questions and beside it, at the top level, is a question
\* that is equal to one of them; the move of that question into the group was
\* refused.
C11_Witness ==
    /\ last.op \in {"move_question_to_group", "move_down", "move_up"}
    /\ last.exc = "ValueError"
    /\ \E g \in 1..Len(last.pre) :
           /\ IsGroup(last.pre[g])
           /\ Len(last.pre[g].questions) = 2
           /\ \E t \in 1..Len(last.pre), i \in 1..2 :
                  /\ IsQuestion(last.pre[t])
                  /\ Eq(last.pre[t], last.pre[g].questions[i])

\* The positions of a collection in document order: each top-level element,
\* a group followed by its questions, each with the key it has.
RECURSIVE DocumentOrder(_, _)
DocumentOrder(q, idx) ==
    IF idx >= Len(q) THEN <<>>
    ELSE LET e == q[idx + 1]
         IN  <<[variable_name |-> e.variable_name, idx |-> idx, sub_idx |-> <<>>]>>
             \o (IF IsGroup(e)
                 THEN [j \in 1..Len(e.questions) |->
                          [variable_name |-> e.questions[j].variable_name,
                           idx |-> idx, sub_idx |-> <<j - 1>>]]
                 ELSE <<>>)
             \o DocumentOrder(q, idx + 1)

\* The places of document order at which the key is found.
Matches(q, variable_name) ==
    {n \in 1..Len(DocumentOrder(q, 0)) :
         DocumentOrder(q, 0)[n].variable_name = variable_name}

\* C12: find_element(key) returns the (idx, sub_idx) of the first position in
\* document order that has the key, sub_idx being None for a top-level
\* element; when no position has the key it raises ValueError; it changes
\* nothing.
C12_FindFirstMatch ==
    last.op = "find_element" =>
        LET d == DocumentOrder(last.pre, 0)
            m == Matches(last.pre, last.args[1])
        IN  /\ qgl = last.pre
            /\ IF m = {}
               THEN last.exc = "ValueError"
               ELSE LET n == CHOOSE n \in m : \A k \in m : n <= k
                    IN  /\ last.exc = "none"
                        /\ last.ret = [idx |-> d[n].idx, sub_idx |-> d[n].sub_idx]

\* find_element found the second question of a group, and the key is also the
\* key of a later position.
C12_Witness ==
    /\ last.op = "find_element"
    /\ last.exc = "none"
    /\ last.ret.sub_idx = <<1>>
    /\ Cardinality(Matches(last.pre, last.args[1])) > 1

\* move_question_to_group was called with the index of a top-level question,
\* the index of a group, and a position in the group that is None or in
\* 0..len(group).
MovedToGroup ==
    /\ last.op = "move_question_to_group"
    /\ last.args[1] \in 0..(Len(last.pre) - 1)
    /\ last.args[2] \in 0..(Len(last.pre) - 1)
    /\ IsQuestion(last.pre[last.args[1] + 1])
    /\ IsGroup(last.pre[last.args[2] + 1])
    /\ \/ last.args[3] = <<>>
       \/ last.args[3][1] \in 0..Len(last.pre[last.args[2] + 1].questions)

\* The question is out of the top level and in the group that was at
\* group_index, at the position asked for (at the end for None); the top level
\* is otherwise as it was, and so is every other group.
PutIntoGroup ==
    LET question == last.pre[last.args[1] + 1]
        group    == last.pre[last.args[2] + 1]
        at       == IF last.args[1] < last.args[2] THEN last.args[2] ELSE last.args[2] + 1
        position == IF last.args[3] = <<>>
                    THEN Len(group.questions) + 1 ELSE last.args[3][1] + 1
    IN  /\ Len(qgl) = Len(last.pre) - 1
        /\ qgl = [Without(last.pre, last.args[1] + 1) EXCEPT
                      ![at] = [group EXCEPT
                                  !.questions = With(group.questions, position, question)]]

\* C13: move_question_to_group(question_index, group_index, position) returns
\* with the question in the group that was at group_index before the call,
\* whether question_index is below or above group_index; the top level is one
\* element shorter, that group has one more question and nothing else changed.
C13_IntoGroupAtIndexBefore ==
    MovedToGroup => last.exc = "none" /\ PutIntoGroup

\* The same for the calls that return, and the others raise ValueError because
\* the group holds a question equal to the one moved.
C13_WhenReturned ==
    MovedToGroup =>
        IF EqualSiblings(last.pre[last.args[2] + 1].questions,
                         last.pre[last.args[1] + 1]) = {}
        THEN last.exc = "none" /\ PutIntoGroup
        ELSE last.exc = "ValueError"

\* Some top-level question of the collection before the call is equal, by
\* name or by key, to question.
EqualAtTopLevel(question) == EqualSiblings(last.pre, question) # {}

\* ungroup_all_questions was called with the index of a group.
UngroupedAll ==
    /\ last.op = "ungroup_all_questions"
    /\ last.args[1] \in 0..(Len(last.pre) - 1)
    /\ IsGroup(last.pre[last.args[1] + 1])

\* The group is where it was and empty, its questions follow it in their
\* order, and after them come the elements that followed the group.
AllAfterGroup ==
    LET g     == last.args[1] + 1
        group == last.pre[g]
    IN  qgl = SubSeq(last.pre, 1, g - 1)
              \o <<[group EXCEPT !.questions = <<>>]>>
              \o group.questions
              \o SubSeq(last.pre, g + 1, Len(last.pre))

\* C14: ungroup_all_questions(g) on a group at index g with questions e1..en
\* returns with the group at index g and empty, e1..en in that order at the
\* top-level indexes g+1..g+n, and the elements that followed the group, in
\* their order, after en.
C14_AllUngrouped ==
    UngroupedAll => last.exc = "none" /\ AllAfterGroup

\* The same for the calls that return, and the others raise
\* QuestionAlreadyExistsException because a top-level question is equal to a
\* question of the group.
C14_WhenReturned ==
    UngroupedAll =>
        LET group == last.pre[last.args[1] + 1]
        IN  IF \A i \in 1..Len(group.questions) : ~EqualAtTopLevel(group.questions[i])
            THEN last.exc = "none" /\ AllAfterGroup
            ELSE last.exc = "QuestionAlreadyExistsException"

\* ungroup_single_question was called with the index of a group and the
\* index of one of its questions.
UngroupedSingle ==
    /\ last.op = "ungroup_single_question"
    /\ last.args[1] \in 0..(Len(last.pre) - 1)
    /\ IsGroup(last.pre[last.args[1] + 1])
    /\ last.args[2] \in 0..(Len(last.pre[last.args[1] + 1].questions) - 1)

\* The question is out of the group and right after it (after) or right
\* before it (not after); the group's other questions and every other element
\* are as they were.
OneBesideGroup ==
    LET g        == last.args[1] + 1
        group    == last.pre[g]
        question == group.questions[last.args[2] + 1]
        rest     == [group EXCEPT !.questions = Without(group.questions, last.args[2] + 1)]
    IN  qgl = SubSeq(last.pre, 1, g - 1)
              \o (IF last.args[3] THEN <<rest, question>> ELSE <<question, rest>>)
              \o SubSeq(last.pre, g + 1, Len(last.pre))

\* C15: ungroup_single_question(g, i, after) on a group at index g and a
\* question at its index i returns with exactly that question out of the group
\* and at top-level index g+1 (after; the group stays at g) or g (not after;
\* the group is then at g+1); with g or i out of range, or no group at g, it
\* raises and changes nothing.
C15_SingleUngrouped ==
    last.op = "ungroup_single_question" =>
        IF UngroupedSingle
        THEN last.exc = "none" /\ OneBesideGroup
        ELSE last.exc \in {"IndexError", "TypeError"} /\ qgl = last.pre

\* The same, but that the call raises QuestionAlreadyExistsException when a
\* top-level question is equal to the question taken out.
C15_WhenReturned ==
    last.op = "ungroup_single_question" =>
        IF ~UngroupedSingle
        THEN last.exc \in {"IndexError", "TypeError"} /\ qgl = last.pre
        ELSE IF ~EqualAtTopLevel(last.pre[last.args[1] + 1].questions[last.args[2] + 1])
        THEN last.exc = "none" /\ OneBesideGroup
        ELSE last.exc = "QuestionAlreadyExistsException"

\* The key of a delete or update call locates a nested question.
Nested ==
    \E g \in 1..Len(last.pre) :
        IsGroup(last.pre[g]) /\ \E j \in 1..Len(last.pre[g].questions) : NestedAt(g, j)

\* C16: delete_question(key) with the key of a question nested in a group
\* returns; the question is then in neither level, its group is where it was
\* with its other questions in their order, and every other element is as it
\* was.
C16_NestedDeleted ==
    last.op = "delete_question" =>
        \A g \in 1..Len(last.pre) :
            IsGroup(last.pre[g]) =>
                \A j \in 1..Len(last.pre[g].questions) :
                    NestedAt(g, j) =>
                        /\ last.exc = "none"
                        /\ qgl = [last.pre EXCEPT
                                      ![g].questions = Without(last.pre[g].questions, j)]

\* What the code does instead: it raises TypeError and changes nothing.
C16_NestedRefused ==
    (last.op = "delete_question" /\ Nested) =>
        last.exc = "TypeError" /\ qgl = last.pre

\* C17: delete_question with a key that locates a group, and delete_group with
\* a key that locates a question, top-level or nested, raise the error of a
\* wrong kind (ValueError) and leave the collection as it was; delete_group
\* with a key that locates a group removes the group with all its questions,
\* and none of them is at the top level afterwards.
C17_DeleteOfKind ==
    /\ (last.op = "delete_question" /\ \E i \in 1..Len(last.pre) : TopGroupAt(i)) =>
           last.exc = "ValueError" /\ qgl = last.pre
    /\ (last.op = "delete_group"
            /\ (Nested \/ \E i \in 1..Len(last.pre) : TopQuestionAt(i))) =>
           last.exc = "ValueError" /\ qgl = last.pre
    /\ last.op = "delete_group" =>
           \A i \in 1..Len(last.pre) :
               TopGroupAt(i) => last.exc = "none" /\ qgl = Without(last.pre, i)

\* delete_group removed a group that held two questions and had an element
\* after it.
C17_Witness ==
    /\ last.op = "delete_group" /\ last.exc = "none"
    /\ \E i \in 1..(Len(last.pre) - 1) :
           /\ TopGroupAt(i)
           /\ Len(last.pre[i].questions) = 2
           /\ qgl = Without(last.pre, i)

\* update_question was called with the key of an element of the collection and
\* a new key that differs from the key of the element find_element locates and
\* that is either a key already in the collection or no valid identifier.
UpdateToRefusedKey ==
    /\ last.op = "update_question"
    /\ has_element(last.pre, last.args[1].variable_name)
    /\ last.args[3] # last.args[1].variable_name
    /\ \/ has_element(last.pre, last.args[3])
       \/ ~is_valid_python_variable_name(last.args[3])

\* C18: update_question with a new key that differs from the current key and
\* is already the key of some question, nested question or group of the
\* collection, or is no valid identifier, raises, and the collection, the
\* name, key and validator of the element included, is as it was; for a
\* top-level element the error is QuestionAlreadyExistsException for a key in
\* use and ValueError for an invalid one.
C18_UpdateRefused ==
    UpdateToRefusedKey =>
        /\ last.exc # "none"
        /\ qgl = last.pre
        /\ ~Nested =>
               last.exc = IF has_element(last.pre, last.args[3])
                          THEN "QuestionAlreadyExistsException" ELSE "ValueError"

\* A top-level question was to get another name, another validator and the
\* key of a question nested in a group, and was refused.
C18_Witness ==
    /\ UpdateToRefusedKey
    /\ last.exc = "QuestionAlreadyExistsException"
    /\ \E i \in 1..Len(last.pre) :
           /\ TopQuestionAt(i)
           /\ last.pre[i].name # last.args[2]
           /\ last.pre[i].validator # last.args[4]
    /\ \E g \in 1..Len(last.pre) :
           /\ IsGroup(last.pre[g])
           /\ \E j \in 1..Len(last.pre[g].questions) :
                  last.pre[g].questions[j].variable_name = last.args[3]
    /\ qgl = last.pre

\* What add of x at index (None or <<i>>) is to make of list s when s holds no
\* equal of x: [ok, the list afterwards].
Added(s, x, index) ==
    IF index = <<>> THEN <<TRUE, Append(s, x)>>
    ELSE IF index[1] \in 0..Len(s) THEN <<TRUE, With(s, index[1] + 1, x)>>
    ELSE <<FALSE, s>>

\* What pop(i) is to make of list s.
Popped(s, i) ==
    IF i \in 0..(Len(s) - 1) THEN <<TRUE, Without(s, i + 1)>> ELSE <<FALSE, s>>

\* What swap(i, j) is to make of list s.
Exchanged(s, i, j) ==
    IF i \in 0..(Len(s) - 1) /\ j \in 0..(Len(s) - 1)
    THEN <<TRUE, Swapped(s, i + 1, j + 1)>> ELSE <<FALSE, s>>

\* The call returned when it was to, and raised IndexError when not; the list
\* it was made on, before and now, is s and t.
AsBounds(expected, s, t) ==
    /\ last.exc = IF expected[1] THEN "none" ELSE "IndexError"
    /\ t = expected[2]
    /\ ~expected[1] => qgl = last.pre

\* The questions of the group at top-level index i (0-based) of collection q.
QuestionsOf(q, i) == q[i + 1].questions

\* A call on the questions of a group of the collection: the first or second
\* argument is the index of a group.
OnGroup(n) ==
    /\ last.args[n] \in 0..(Len(last.pre) - 1)
    /\ IsGroup(last.pre[last.args[n] + 1])

\* C19: on the collection and on the questions of a group alike, add of a
\* value that has no equal inserts at an index in 0..len and appends for None;
\* pop and swap take indexes in 0..len-1 only; with any other index the call
\* raises IndexError and the list is as it was.
C19_IndexBounds ==
    /\ (last.op = "add" /\ EqualSiblings(last.pre, last.args[1]) = {}) =>
           AsBounds(Added(last.pre, last.args[1], last.args[2]), last.pre, qgl)
    /\ (/\ last.op = "add_question_to_group"
        /\ OnGroup(2)
        /\ EqualSiblings(QuestionsOf(last.pre, last.args[2]), last.args[1]) = {}) =>
           /\ AsBounds(Added(QuestionsOf(last.pre, last.args[2]), last.args[1], last.args[3]),
                       QuestionsOf(last.pre, last.args[2]), QuestionsOf(qgl, last.args[2]))
           /\ qgl = WithQuestions(last.pre, last.args[2], QuestionsOf(qgl, last.args[2]))
    /\ last.op = "pop" =>
           /\ AsBounds(Popped(last.pre, last.args[1]), last.pre, qgl)
           /\ last.exc = "none" => last.ret = <<last.pre[last.args[1] + 1]>>
    /\ last.op = "swap" =>
           AsBounds(Exchanged(last.pre, last.args[1], last.args[2]), last.pre, qgl)
    /\ (last.op = "QuestionList.pop" /\ OnGroup(1)) =>
           /\ AsBounds(Popped(QuestionsOf(last.pre, last.args[1]), last.args[2]),
                       QuestionsOf(last.pre, last.args[1]), QuestionsOf(qgl, last.args[1]))
           /\ qgl = WithQuestions(last.pre, last.args[1], QuestionsOf(qgl, last.args[1]))
           /\ last.exc = "none" =>
                  last.ret = <<QuestionsOf(last.pre, last.args[1])[last.args[2] + 1]>>
    /\ (last.op = "Group.swap" /\ OnGroup(1)) =>
           /\ AsBounds(Exchanged(QuestionsOf(last.pre, last.args[1]), last.args[2], last.args[3]),
                       QuestionsOf(last.pre, last.args[1]), QuestionsOf(qgl, last.args[1]))
           /\ qgl = WithQuestions(last.pre, last.args[1], QuestionsOf(qgl, last.args[1]))

\* pop at index -1 of a collection of three elements raised IndexError and
\* took nothing.
C19_Witness ==
    /\ last.op = "pop"
    /\ last.args[1] = -1
    /\ Len(last.pre) = 3
    /\ last.exc = "IndexError"
    /\ qgl = last.pre

\* C20: after an add that returned, to the collection or to the questions of a
\* group, a pop at the index the value was added at (len-1 after an append)
\* returns that value and leaves the list as it was before the add.
C20_AddThenPop ==
    /\ (last.op = "add" /\ last.exc = "none") =>
           LET i == IF last.args[2] = <<>> THEN Len(qgl) - 1 ELSE last.args[2][1]
               p == pop(qgl, i)
           IN  p.exc = "none" /\ p.ret = <<last.args[1]>> /\ p.q = last.pre
    /\ (last.op = "add_question_to_group" /\ last.exc = "none") =>
           LET questions == QuestionsOf(qgl, last.args[2])
               i == IF last.args[3] = <<>> THEN Len(questions) - 1 ELSE last.args[3][1]
               p == QuestionList_pop(questions, i)
           IN  /\ p.exc = "none"
               /\ p.ret = <<last.args[1]>>
               /\ WithQuestions(qgl, last.args[2], p.q) = last.pre

\* A question was added to a group between two questions of the group.
C20_Witness ==
    /\ last.op = "add_question_to_group" /\ last.exc = "none"
    /\ last.args[3] = <<1>>
    /\ Len(QuestionsOf(qgl, last.args[2])) = 3
    /\ QuestionList_pop(QuestionsOf(qgl, last.args[2]), 1).ret = <<last.args[1]>>

(***************************************************************************)
(* The list of validator classes.                                          *)
(***************************************************************************)
\* The last call was operation op of the ValidatorsList.
OnRegistry(op) == last.op = op

\* The name a call of add or change_name is to give: its last argument.
GivenName == last.args[Len(last.args)]

\* The list and every class name are as they were before the call.
RegistryUnchanged == Registry = last.pre

\* Every built-in class is in the list vl under the name validators.py gave it.
BuiltinsPresent(vl) ==
    \A i \in DOMAIN BuiltinClasses :
        /\ BuiltinClasses[i] \in Range(vl.validators)
        /\ vl.class_name[BuiltinClasses[i]] = builtin_validators[i]

\* The classes that stay in the list have the names they had before the call.
OthersKeepNames ==
    \A c \in Range(validators) \cap Range(last.pre.validators) :
        class_name[c] = last.pre.class_name[c]

\* C22: after any sequence of add, remove and change_name on the list of
\* validators, every one of the six built-in classes is still in the list
\* under its own name.
C22_BuiltinsStay == BuiltinsPresent(Registry)

\* What does hold: remove takes no built-in class that has its own name, and
\* add takes none at all.
C22_RemoveKeepsBuiltins ==
    (/\ last.op \in {"ValidatorsList.remove", "ValidatorsList.add"}
     /\ BuiltinsPresent(last.pre)) => BuiltinsPresent(Registry)

\* C23: remove(name) with the name of a built-in validator raises and leaves
\* the list as it was; with a name no class of the list has it raises "not
\* found" and leaves the list as it was; with a name a class of the list has
\* it takes that class out and keeps the others, in their order and under
\* their names.
C23_Remove ==
    OnRegistry("ValidatorsList.remove") =>
        IF last.args[1] \in Range(builtin_validators)
        THEN /\ last.exc = "ValueError"
             /\ last.ret = "Cannot remove built-in validator"
             /\ RegistryUnchanged
        ELSE IF last.args[1] \notin Range(ValidatorNames(last.pre))
        THEN /\ last.exc = "ValueError"
             /\ last.ret = "not found"
             /\ RegistryUnchanged
        ELSE /\ last.exc = "none"
             /\ \E i \in DOMAIN last.pre.validators :
                    /\ ValidatorNames(last.pre)[i] = last.args[1]
                    /\ validators = Remove(last.pre.validators, i - 1)
             /\ last.args[1] \notin Range(ValidatorNames(Registry))
             /\ OthersKeepNames

\* remove has taken a class that had another one after it.
C23_Witness ==
    /\ OnRegistry("ValidatorsList.remove")
    /\ last.exc = "none"
    /\ ValidatorNames(last.pre)[Len(last.pre.validators)] # last.args[1]
    /\ Len(validators) > Len(BuiltinClasses)

\* C24: in every state that add, remove and change_name lead to, no two
\* classes of the list have the same name.
C24_NamesUnique ==
    \A i, j \in DOMAIN validators :
        i # j => class_name[validators[i]] # class_name[validators[j]]

\* A class has been added and a class that is not built-in has been renamed.
C24_Witness ==
    /\ OnRegistry("ValidatorsList.change_name")
    /\ last.exc = "none"
    /\ Len(validators) > Len(BuiltinClasses)
    /\ last.args[1] \notin Range(builtin_validators)

\* C25: add(name) with a valid name that no class of the list has puts one
\* new custom class of that name at the end of the list; with a name that a
\* class of the list has, built-in or not, it raises ValidatorAlreadyExists
\* and leaves the list as it was.
C25_Add ==
    OnRegistry("ValidatorsList.add") =>
        IF last.args[1] \in Range(ValidatorNames(last.pre))
        THEN /\ last.exc = "ValidatorAlreadyExists"
             /\ RegistryUnchanged
        ELSE is_valid_python_variable_name(last.args[1]) =>
             /\ last.exc = "none"
             /\ Len(validators) = Len(last.pre.validators) + 1
             /\ SubSeq(validators, 1, Len(last.pre.validators)) = last.pre.validators
             /\ validators[Len(validators)] \in CustomClasses
             /\ validators[Len(validators)] \notin Range(last.pre.validators)
             /\ class_name[validators[Len(validators)]] = last.args[1]
             /\ OthersKeepNames

\* add has put a second custom class at the end of the list.
C25_Witness ==
    /\ OnRegistry("ValidatorsList.add")
    /\ last.exc = "none"
    /\ Len(validators) = Len(BuiltinClasses) + 2
    /\ ValidatorNames(Registry)[Len(validators)] = last.args[1]

\* C26: add(name) and change_name(_, name) with a name that is no identifier
\* raise NotValidPythonVariableNameException, with a keyword they raise
\* PythonKeywordException, and the list is as it was.
C26_ErrorKinds ==
    (OnRegistry("ValidatorsList.add") \/ OnRegistry("ValidatorsList.change_name")) =>
        /\ GivenName \in NotIdentifiers =>
               last.exc = "NotValidPythonVariableNameException" /\ RegistryUnchanged
        /\ GivenName \in PythonKeywords =>
               last.exc = "PythonKeywordException" /\ RegistryUnchanged

\* What does hold: both kinds of name are refused with the ValueError of
\* utils.is_valid_python_variable_name, and the list is as it was.
C26_RefusedWithValueError ==
    (/\ OnRegistry("ValidatorsList.add") \/ OnRegistry("ValidatorsList.change_name")
     /\ GivenName \in NotIdentifiers \cup PythonKeywords) =>
        last.exc = "ValueError" /\ RegistryUnchanged

(***************************************************************************)
(* to_dict, from_dict and the keys.                                        *)
(***************************************************************************)
\* The collection with the validator of every question replaced by its name:
\* kinds, names, keys, tag names and the order of everything.
TagNamed(question) ==
    IF question.validator = NoValidator THEN question
    ELSE [question EXCEPT !.validator = validator_name(class_name, question.validator)]

TagNames(q) ==
    [i \in DOMAIN q |->
        IF IsGroup(q[i])
        THEN [q[i] EXCEPT !.questions =
                  [j \in DOMAIN q[i].questions |-> TagNamed(q[i].questions[j])]]
        ELSE TagNamed(q[i])]

\* from_dict was given what to_dict makes of the collection.
RoundTrip ==
    /\ last.op = "from_dict"
    /\ last.args[1] = QuestionGroupList_to_dict(class_name, last.pre)

\* Every name, key and tag name in the collection q is a non-empty string.
AllNamed(q) ==
    \A i \in DOMAIN Flat(q) :
        /\ Flat(q)[i].name # ""
        /\ Flat(q)[i].variable_name # ""
        /\ IsQuestion(Flat(q)[i]) => Flat(q)[i].validator # ""

\* C21: for every collection that can be built, from_dict(to_dict())
\* returns, and what it returns has the same elements in the same order, with
\* the same kinds, names, keys, tag names and nested questions.
C21_RoundTrip == RoundTrip => last.exc = "none" /\ TagNames(qgl) = TagNames(last.pre)

\* What does hold: the round trip of a collection that has no empty name,
\* key or tag name.
C21_WhenNamed ==
    (RoundTrip /\ AllNamed(last.pre)) =>
        last.exc = "none" /\ TagNames(qgl) = TagNames(last.pre)

\* C30: every question and every group of a collection, whether a
\* constructor, from_dict or update_question made it, has a key that
\* is_valid_python_variable_name accepts.
C30_KeysValid ==
    \A i \in DOMAIN Flat(qgl) : is_valid_python_variable_name(Flat(qgl)[i].variable_name)

\* What does hold: the key of every question, which the setter of
\* Question.variable_name has tested.
C30_QuestionKeysValid ==
    \A i \in DOMAIN Flat(qgl) :
        IsQuestion(Flat(qgl)[i]) => is_valid_python_variable_name(Flat(qgl)[i].variable_name)

(***************************************************************************)
(* The controller.                                                         *)
(***************************************************************************)
\* The last call was operation op of the controller and it returned.
Succeeded(op) == last.op = op /\ last.exc = "none"

\* The questions of the collection q, top-level and nested, in document order.
QuestionsIn(q) == SelectSeq(Flat(q), IsQuestion)

\* The name of the validator of a question when the class names are names;
\* NoValidator when it has none.
TagName(names, question) ==
    IF question.validator = NoValidator THEN NoValidator
    ELSE validator_name(names, question.validator)

\* The collection q with no validator on any question: the elements, their
\* names and keys and their places.
Untagged(q) ==
    [i \in DOMAIN q |->
        IF IsGroup(q[i])
        THEN [q[i] EXCEPT !.questions =
                  [j \in DOMAIN q[i].questions |->
                      [q[i].questions[j] EXCEPT !.validator = NoValidator]]]
        ELSE [q[i] EXCEPT !.validator = NoValidator]]

\* The name of the validator of the i-th question before the last call and
\* after it.
TagBefore(i) == TagName(last.pre.class_name, QuestionsIn(last.pre.questions_and_groups)[i])

TagAfter(i) == TagName(class_name, QuestionsIn(qgl)[i])

\* Names, keys and places of all elements are as before the call.
ElementsInPlace == Untagged(qgl) = Untagged(last.pre.questions_and_groups)

\* The registry before the call held every built-in class under its name.
BuiltinsWerePresent == BuiltinsPresent(last.pre)

\* After remove_validator(name): the questions tagged name have no tag, the
\* others have the tag they had.
TagsCleared ==
    /\ ElementsInPlace
    /\ \A i \in DOMAIN QuestionsIn(qgl) :
           IF TagBefore(i) = last.args[1]
           THEN TagAfter(i) = NoValidator
           ELSE /\ TagAfter(i) = TagBefore(i)
                /\ QuestionsIn(qgl)[i].validator =
                       QuestionsIn(last.pre.questions_and_groups)[i].validator

\* After change_validator_name(old, new): the questions tagged old are tagged
\* new, none is tagged old, the others have the tag they had.
TagsRenamed ==
    /\ ElementsInPlace
    /\ \A i \in DOMAIN QuestionsIn(qgl) :
           /\ TagAfter(i) # last.args[1]
           /\ IF TagBefore(i) = last.args[1]
              THEN TagAfter(i) = last.args[2]
              ELSE TagAfter(i) = TagBefore(i)

\* C27: after a remove_validator(name) that returned, every question, at the
\* top level and in a group, whose validator was named name has no validator,
\* every other question has the validator it had, and names, keys and places
\* of all elements are as before.
C27_TagsCleared == Succeeded("remove_validator") => TagsCleared

\* What does hold: the same, of a call on a list of validators that held
\* every built-in class under its own name.
C27_WhenBuiltinsStay ==
    (Succeeded("remove_validator") /\ BuiltinsWerePresent) => TagsCleared

\* A nested question and a top-level one have lost their validator.
C27_Cleared ==
    /\ Succeeded("remove_validator")
    /\ BuiltinsWerePresent
    /\ \A i \in DOMAIN QuestionsIn(qgl) : TagBefore(i) = last.args[1]

\* C28: after a change_validator_name(old, new) that returned, every
\* question, at the top level and in a group, whose validator was named old
\* has a validator named new, no question has one named old, and the
\* questions with another validator or none are as before.
C28_TagsRenamed == Succeeded("change_validator_name") => TagsRenamed

\* What does hold: the same, of a call on a list of validators that held
\* every built-in class under its own name.
C28_WhenBuiltinsStay ==
    (Succeeded("change_validator_name") /\ BuiltinsWerePresent) => TagsRenamed

\* The last call was a call of the controller that changes it.
Mutation ==
    last.op \in {"add_validator", "remove_validator", "change_validator_name",
                 "is_admin_bot_enabled", "is_google_sheets_sync_enabled"}

\* The controller without its file and its count of writes.
InMemory(c) ==
    [questions_and_groups |-> c.questions_and_groups, validators |-> c.validators,
     class_name |-> c.class_name, is_admin_bot_enabled |-> c.is_admin_bot_enabled,
     is_google_sheets_sync_enabled |-> c.is_google_sheets_sync_enabled]

\* C29: a call of add_validator, remove_validator, change_validator_name or
\* of a setter of a flag that raised has written nothing and has left the
\* file as it was; one that returned has written the file once, after the
\* change and the walk over the collection; and after every call the file is
\* what to_dict makes of the controller: flags, collection and custom
\* validators.
C29_WriteThrough ==
    /\ config_file = ConfigController_to_dict(Controller)
    /\ Mutation =>
           IF last.exc # "none"
           THEN /\ writes = 0
                /\ config_file = last.pre.config_file
                /\ InMemory(Controller) = InMemory(last.pre)
           ELSE writes = 1

\* A change_validator_name has renamed the validator of a question and has
\* written the file.
C29_Witness ==
    /\ Succeeded("change_validator_name")
    /\ qgl # last.pre.questions_and_groups
    /\ config_file # last.pre.config_file

(***************************************************************************)
(* Groups made without a list of questions.                                *)
(***************************************************************************)
\* The g-th Group of heap h was made without a list of questions.
WithoutList(h, g) == h.groups[g].questions \notin {CallerList(n) : n \in 1..MaxGroups}

OnEntriesOfGroup == last.op \in {"QuestionList.add", "QuestionList.pop", "Group.swap"}

\* C31: a Group made without a list of questions has an empty list of its
\* own: it is empty when the Group is made, and a call that adds, removes or
\* exchanges questions of one such Group leaves the questions of every other
\* such Group as they were.
C31_FreshLists ==
    /\ (last.op = "Group" /\ last.args[1] = <<>>) =>
           Entries(heap, Len(heap.groups)) = <<>>
    /\ OnEntriesOfGroup =>
           \A g \in DOMAIN heap.groups :
               (/\ g # last.args[1]
                /\ WithoutList(heap, g)
                /\ WithoutList(heap, last.args[1])) =>
                   Entries(heap, g) = Entries(last.pre, g)

\* A Group made with a list of its own keeps its questions whatever is done
\* to the others, and the others keep theirs whatever is done to it.
C31_OwnListsApart ==
    OnEntriesOfGroup =>
        \A g \in DOMAIN heap.groups :
            (g # last.args[1] /\ (~WithoutList(heap, g) \/ ~WithoutList(heap, last.args[1]))) =>
                Entries(heap, g) = Entries(last.pre, g)

(***************************************************************************)
(* The moves: the shift, what a move leaves alone, and the ends.           *)
(***************************************************************************)
\* Key k is the key of a top-level element of q.
AtTopLevel(q, k) == \E i \in 1..Len(q) : q[i].variable_name = k

\* Key k is the key of a question of a group of q.
InGroup(q, k) ==
    \E g \in 1..Len(q) :
        IsGroup(q[g]) /\ \E j \in 1..Len(q[g].questions) : q[g].questions[j].variable_name = k

\* The call took its question from the top level into a group.
MovedInto == AtTopLevel(last.pre, MovedKey) /\ InGroup(qgl, MovedKey)

\* The call took its question out of a group to the top level.
MovedOut == InGroup(last.pre, MovedKey) /\ AtTopLevel(qgl, MovedKey)

\* C32: on a collection whose names and keys are all different, the shift a
\* successful move_down or move_up returns is 0 exactly when the element stays
\* on its level, positive exactly when a question went into a group, and
\* negative exactly when a question went out of a group.
C32_ShiftSign ==
    (Moved /\ last.exc = "none" /\ Distinct(last.pre)) =>
        /\ last.ret = 0 <=> (~MovedInto /\ ~MovedOut)
        /\ last.ret > 0 <=> MovedInto
        /\ last.ret < 0 <=> MovedOut

\* The places of a collection: <<i, 0>> is top-level position i, <<g, j>>
\* entry j of the group at top-level position g (all from 1).
Places(q) ==
    {<<i, 0>> : i \in 1..Len(q)}
        \cup UNION {{<<g, j>> : j \in 1..(IF IsGroup(q[g]) THEN Len(q[g].questions) ELSE 0)} :
                       g \in 1..Len(q)}

PlacedAt(q, p) == IF p[2] = 0 THEN q[p[1]] ELSE q[p[1]].questions[p[2]]

\* The collection without the element at place p.
Less(q, p) ==
    IF p[2] = 0 THEN Without(q, p[1])
    ELSE [q EXCEPT ![p[1]].questions = Without(@, p[2])]

\* The place the call found its element at.
FoundAt(p) == IF p[2] = 0 THEN TopAt(p[1]) ELSE NestedAt(p[1], p[2])

\* Groups are at the top level only, and what a group holds are questions.
TwoLevels(q) ==
    \A g \in 1..Len(q) :
        IsGroup(q[g]) => \A j \in 1..Len(q[g].questions) : IsQuestion(q[g].questions[j])

\* C33: a successful move_down or move_up changes only where its element is:
\* the element (a group with its questions in their order) is at some place
\* after the call, and the collection without it there is the collection
\* before the call without it: every other element is where it was, a group
\* that gave its last question away is still there and empty, and groups hold
\* questions only.
C33_OnlyPositionChanges ==
    (Moved /\ last.exc = "none") =>
        /\ TwoLevels(qgl)
        /\ \A p \in Places(last.pre) :
               FoundAt(p) =>
                   \E r \in Places(qgl) :
                       /\ PlacedAt(qgl, r) = PlacedAt(last.pre, p)
                       /\ Less(qgl, r) = Less(last.pre, p)
                       /\ r # p

\* A move took the only question of a group out of it and left the group
\* where it was, empty.
C33_Witness ==
    /\ Moved /\ last.exc = "none"
    /\ \E g \in 1..Len(last.pre) :
           /\ NestedAt(g, 1)
           /\ Len(last.pre[g].questions) = 1
           /\ \E h \in 1..Len(qgl) :
                  qgl[h] = [last.pre[g] EXCEPT !.questions = <<>>]

\* The element the call moved is now the last (move_down) or the first
\* (move_up) of the top level.
AtTheEnd ==
    /\ qgl # <<>>
    /\ qgl[IF last.op = "move_down" THEN Len(qgl) ELSE 1].variable_name = MovedKey

\* A successful move takes a question one step and over no group: from the
\* top level into the group next to it, at the end it came from; inside a
\* group past one question; from the end of a group to the top level next to
\* the group.
OneStep ==
    (Moved /\ last.exc = "none") =>
        LET down == last.op = "move_down" IN
        /\ \A i \in 1..Len(last.pre) :
               LET n == IF down THEN i + 1 ELSE i - 1 IN
               (TopQuestionAt(i) /\ n \in 1..Len(last.pre) /\ IsGroup(last.pre[n])) =>
                   LET g == IF down THEN i ELSE i - 1 IN
                   /\ qgl[g].variable_name = last.pre[n].variable_name
                   /\ qgl[g].questions =
                          IF down THEN <<last.pre[i]>> \o last.pre[n].questions
                          ELSE Append(last.pre[n].questions, last.pre[i])
        /\ \A p \in Places(last.pre) :
               (p[2] # 0 /\ FoundAt(p)) =>
                   LET g == p[1]
                       j == IF down THEN p[2] + 1 ELSE p[2] - 1
                   IN  IF j \in 1..Len(last.pre[g].questions)
                       THEN PlacedAt(qgl, <<g, j>>) = PlacedAt(last.pre, p)
                       ELSE /\ qgl[IF down THEN g + 1 ELSE g] = PlacedAt(last.pre, p)
                            /\ qgl[IF down THEN g ELSE g + 1].variable_name
                                   = last.pre[g].variable_name

Put(q, p, x) ==
    IF p[2] = 0 THEN [q EXCEPT ![p[1]] = x]
    ELSE [q EXCEPT ![p[1]].questions[p[2]] = x]

\* No element of q has the key.
Unused(q, variable_name) ==
    \A i \in 1..Len(Flat(q)) : Flat(q)[i].variable_name # variable_name

\* update_question found a question at place p and was given a key that
\* is_valid_python_variable_name accepts and that is the question's own or
\* the key of no element.
UpdatableAt(p) ==
    /\ last.op = "update_question"
    /\ FoundAt(p)
    /\ IsQuestion(PlacedAt(last.pre, p))
    /\ is_valid_python_variable_name(last.args[3])
    /\ \/ last.args[3] = PlacedAt(last.pre, p).variable_name
       \/ Unused(last.pre, last.args[3])

\* The call returned, and the collection is as before but for the question at
\* place p, which has the new name, key and validator.
UpdatedAt(p) ==
    /\ last.exc = "none"
    /\ qgl = Put(last.pre, p,
                 [PlacedAt(last.pre, p) EXCEPT !.name = last.args[2],
                                               !.variable_name = last.args[3],
                                               !.validator = last.args[4]])

\* C35: update_question on a question, top-level or in a group, with a new key
\* that is valid and is the key of no element (or is the question's own key)
\* returns; the question is then where it was with the new name, key and
\* validator, and every other element is as it was.
C35_UpdateOnBothLevels ==
    \A p \in Places(last.pre) : UpdatableAt(p) => UpdatedAt(p)

\* On the top level update_question does as C35 says.
C35_TopLevelUpdated ==
    \A p \in Places(last.pre) : (UpdatableAt(p) /\ p[2] = 0) => UpdatedAt(p)

\* On a question in a group such an update_question raises TypeError and
\* leaves the collection as it was.
C35_NestedRefused ==
    \A p \in Places(last.pre) :
        (UpdatableAt(p) /\ p[2] # 0) => (last.exc = "TypeError" /\ qgl = last.pre)

(***************************************************************************)
(* The validators of the questions and the list of validators.             *)
(***************************************************************************)
\* Every question of controller c that has a validator has one whose name is
\* the name of a class of the controller's list.
TagsRegistered(c) ==
    \A i \in DOMAIN QuestionsIn(c.questions_and_groups) :
        LET name == TagName(c.class_name, QuestionsIn(c.questions_and_groups)[i])
        IN  name # NoValidator =>
                name \in Range(ValidatorNames([validators |-> c.validators,
                                               class_name |-> c.class_name]))

OnValidators == last.op \in {"add_validator", "remove_validator", "change_validator_name"}

\* C36: when every question that has a validator has one that is in the list
\* of validators, that is still so after add_validator, remove_validator or
\* change_validator_name, whether the call returned or raised.
C36_TagsRegistered ==
    (OnValidators /\ TagsRegistered(last.pre)) => TagsRegistered(Controller)

\* What does hold: the same, of a call on a list of validators that held
\* every built-in class under its own name.
C36_WhenBuiltinsStay ==
    (OnValidators /\ TagsRegistered(last.pre) /\ BuiltinsWerePresent) =>
        TagsRegistered(Controller)

\* A validator that two questions had was removed or renamed with the
\* built-in classes all in the list.
C36_Cascaded ==
    /\ last.op \in {"remove_validator", "change_validator_name"}
    /\ last.exc = "none"
    /\ TagsRegistered(last.pre)
    /\ BuiltinsWerePresent
    /\ \A i \in DOMAIN QuestionsIn(qgl) : TagBefore(i) = last.args[1]

(***************************************************************************)
(* change_name of the list of validators.                                  *)
(***************************************************************************)
\* C37: change_name(old_name, new_name) on the list of validators.  With
\* new_name the name of a class of the list (old_name itself included) it
\* raises ValidatorAlreadyExists; with new_name a valid name that no class has
\* and old_name the name of no class it raises ValueError "Validator not
\* found"; either way the list and the names are as they were.  With new_name
\* valid and free and old_name the name of a class, it returns, the class
\* named old_name is named new_name, and the list holds the same classes in
\* the same order, the others under the names they had.
C37_ChangeName ==
    OnRegistry("ValidatorsList.change_name") =>
        LET names    == ValidatorNames(last.pre)
            old_name == last.args[1]
            new_name == last.args[2]
        IN  IF new_name \in Range(names)
            THEN last.exc = "ValidatorAlreadyExists" /\ RegistryUnchanged
            ELSE is_valid_python_variable_name(new_name) =>
                     IF old_name \notin Range(names)
                     THEN /\ last.exc = "ValueError"
                          /\ last.ret = "Validator not found"
                          /\ RegistryUnchanged
                     ELSE /\ last.exc = "none"
                          /\ validators = last.pre.validators
                          /\ ValidatorNames(Registry) =
                                 [i \in DOMAIN names |->
                                     IF names[i] = old_name THEN new_name ELSE names[i]]

\* A class with a class before it and a class after it was renamed.
C37_Witness ==
    /\ OnRegistry("ValidatorsList.change_name")
    /\ last.exc = "none"
    /\ \E i \in 2..(Len(validators) - 1) :
           /\ ValidatorNames(last.pre)[i] = last.args[1]
           /\ ValidatorNames(Registry)[i] = last.args[2]

(***************************************************************************)
(* The cursor of the questions list screen and the rows it may index.      *)
(***************************************************************************)
\* An Up or Down key was handled in moving mode on a menu without rows.
MoveKeyOnEmpty ==
    /\ key_event.key \in {"KEY_UP", "KEY_DOWN"}
    /\ key_event.is_moving
    /\ key_event.menu_items = <<>>

\* C38: whatever the collection the screen was opened on and whatever keys it
\* has handled, handle_input never ends with an IndexError, selected_idx is
\* the index of a row whenever the menu has rows, and an Up or Down key in
\* moving mode on a menu without rows returns and leaves the screen as it was.
C38_CursorInRange ==
    /\ key_event.exc # "IndexError"
    /\ menu_items # <<>> => selected_idx \in 0..(Len(menu_items) - 1)
    /\ MoveKeyOnEmpty =>
           /\ key_event.exc = "none"
           /\ selected_idx = key_event.selected_idx
           /\ menu_items = key_event.menu_items

\* The part of C38 that the screen keeps: selected_idx is the index of a row
\* whenever the menu has rows.
C38_InRangeWithRows ==
    menu_items # <<>> => selected_idx \in 0..(Len(menu_items) - 1)

\* Where C38 fails: the move key on the menu without rows ends with the
\* IndexError of menu_items[0].
C38_EmptyRefused == MoveKeyOnEmpty /\ key_event.exc = "IndexError"

(***************************************************************************)
(* The stack of screens.                                                   *)
(***************************************************************************)
\* The screen on top of the stack is the one that reads the keys.
TopIsCurrent == screens_stack # <<>> /\ current_screen = Len(screens_stack)

\* The stack as it was with its last amount screens taken off.
TakenOff(amount) == SubSeq(last.pre, 1, Len(last.pre) - amount)

\* The step pushed one screen on the stack as it was.
PushedOne ==
    /\ Len(screens_stack) = Len(last.pre) + 1
    /\ SubSeq(screens_stack, 1, Len(last.pre)) = last.pre

\* Enter was handled by a ConfirmScreen with the cursor on Confirm.
DeleteConfirmed ==
    /\ last.op = "handle_input"
    /\ last.args = <<"ConfirmScreen", "KEY_ENTER", 1>>

C39_Left ==
    /\ last.op = "go_back"
    /\ last.exc = "SystemExit"
    /\ Len(screens_stack) > 1
    /\ last.args[1] >= Len(screens_stack)

====
